---------------------------- MODULE Spec2Model ----------------------------
(* Reading-insights engine of the IVEread client                          *)
(* (src/iveread/services/insights.ts): DayKey normalisation, streaks,     *)
(* weekly frequency, weekday histogram, completion, top books, and the    *)
(* local-aggregation / remote-fallback orchestration of fetchInsights.    *)
EXTENDS Integers, Sequences, FiniteSets, TLC

VARIABLES
    days,           \* habit functions: the calendar days (day numbers) the input DayKeys denote
    dateKeys,       \* habit functions: the Set<string> argument
    now,            \* the clock read by `new Date()`: [day, ms]
    habitOut,       \* habit functions: results computed so far
    userId,         \* the session's user id, or NULL
    groups,         \* upstream: the response of GET /api/groups
    finishedBooks,  \* upstream: the response of the finished-groups query
    records,        \* upstream: the response of GET /api/users/{id}/records
    groupSentences, \* upstream: the response of GET /api/groups/{id}/sentences, per group id
    insights,       \* the InsightsResponse the aggregation produced, or NULL
    pc,             \* fetchInsights: where the call stands
    build,          \* buildInsightsFromUserData: where the call stands
    req,            \* the state of each upstream request of the call
    issued,         \* how many times each upstream query was started
    bookMapValues,  \* buildInsightsFromUserData: the values of bookMap, in insertion order
    screen,         \* ReadingInsightsScreen: its useState values
    focused,        \* ReadingInsightsScreen: whether the screen has the focus
    loads,          \* ReadingInsightsScreen: the loadInsights calls made so far
    results,        \* the InsightsResponses of successive calls of the aggregator
    tz,             \* the client's timezone: the offset of local time from UTC, in minutes
    textExample,    \* fetchInsightsTextExample: the lines it returned, <<>> before that
    cachedUserId,   \* session: the module variable cachedUserId ("" for null)
    hydrated,       \* session: the module variable hydrated
    storage,        \* AsyncStorage: the value under session.userId ("" for none)
    calls,          \* session and auth: the asynchronous calls made so far
    lastSet         \* session: the argument of the latest setUserId call, if any

habitVars == <<days, dateKeys, habitOut>>
dataVars == <<userId, groups, finishedBooks, records, groupSentences>>
fetchVars == <<pc, build, req, issued>>
screenVars == <<screen, focused, loads>>
sessionVars == <<cachedUserId, hydrated, storage, calls, lastSet>>
lateVars == <<results, tz, textExample, sessionVars>>
vars == <<days, dateKeys, now, habitOut, userId, groups, finishedBooks, records,
          groupSentences, insights, pc, build, req, issued, bookMapValues,
          screen, focused, loads, results, tz, textExample,
          cachedUserId, hydrated, storage, calls, lastSet>>

-----------------------------------------------------------------------------
(* Bounds                                                                  *)

\* number of days before/after the year boundary from which arbitrary day sets are drawn
NearSpan == 3
\* number of days before/after the start of the trailing window at which runs may start
RunSpan == 2
\* longest record list of the date-focused inputs
MaxDateRecords == 3
\* longest record list of the book-focused inputs
MaxBookRecords == 5
\* longest record list of the title-focused inputs
MaxTitleRecords == 3
\* number of times the insights screen gains the focus
MaxLoads == 2
\* longest record list of the repeated aggregation
MaxRepeatRecords == 2
\* longest record list of the timestamp-focused inputs
MaxStampRecords == 2
\* number of session and auth calls made
MaxSessionCalls == 3

-----------------------------------------------------------------------------
(* JavaScript Date: a time value is modelled as [day, ms] with day the     *)
(* number of whole days since 1970-01-01 UTC and ms the millisecond of     *)
(* that day.                                                               *)

NULL == [null |-> TRUE]

\* a text: a literal or a template, with the values filled into it
Text(text, args) == [text |-> text, args |-> args]

\* ''
EmptyText == Text("", <<>>)

\* the useState initial values of ReadingInsightsScreen
\* the session module as it is loaded, with nothing stored and no call made
SessionIdle ==
    /\ cachedUserId = ""
    /\ hydrated = FALSE
    /\ storage = ""
    /\ calls = <<>>
    /\ lastSet = [called |-> FALSE, userId |-> ""]

\* no second call of the aggregator, a client on UTC, no text rendered
LateIdle ==
    /\ results = <<>>
    /\ tz = 0
    /\ textExample = <<>>
    /\ SessionIdle

InitialScreen ==
    [summaryText |-> EmptyText, insights |-> NULL, insightsError |-> NULL, isLoading |-> FALSE]

\* getUserId() without a user: null (an empty id is as falsy at `!userId`)
NoUserId == ""

NewDate(day, ms) == [day |-> day, ms |-> ms]

\* proleptic Gregorian calendar: day number -> [y, m, d]
CivilFromDays(z) ==
    LET zz  == z + 719468
        era == zz \div 146097
        doe == zz - era * 146097
        yoe == (doe - (doe \div 1460) + (doe \div 36524) - (doe \div 146096)) \div 365
        doy == doe - (365 * yoe + (yoe \div 4) - (yoe \div 100))
        mp  == (5 * doy + 2) \div 153
        d   == doy - ((153 * mp + 2) \div 5) + 1
        m   == IF mp < 10 THEN mp + 3 ELSE mp - 9
        y   == yoe + era * 400 + (IF m <= 2 THEN 1 ELSE 0)
    IN  [y |-> y, m |-> m, d |-> d]

\* proleptic Gregorian calendar: (y, m, d) -> day number
DaysFromCivil(y, m, d) ==
    LET yy  == IF m <= 2 THEN y - 1 ELSE y
        era == yy \div 400
        yoe == yy - era * 400
        mp  == IF m > 2 THEN m - 3 ELSE m + 9
        doy == ((153 * mp + 2) \div 5) + d - 1
        doe == yoe * 365 + (yoe \div 4) - (yoe \div 100) + doy
    IN  era * 146097 + doe - 719468

getUTCFullYear(date) == CivilFromDays(date.day).y
\* zero-based month, as in JavaScript
getUTCMonth(date) == CivilFromDays(date.day).m - 1
getUTCDate(date) == CivilFromDays(date.day).d
\* 0 = Sunday .. 6 = Saturday; 1970-01-01 was a Thursday
getUTCDay(date) == (date.day + 4) % 7

\* Date.UTC(year, month, date): the day number of the resulting midnight.
\* Years 0..99 mean 1900..1999; month and date overflow are carried.
DateUTC(year, month, dt) ==
    LET yr == IF year >= 0 /\ year <= 99 THEN 1900 + year ELSE year
        ym == yr + (month \div 12)
        mn == month % 12
    IN  DaysFromCivil(ym, mn + 1, 1) + dt - 1

-----------------------------------------------------------------------------
(* Strings are sequences of UTF-16 code units.                             *)

Hyphen == 45
Zero == 48

RECURSIVE DigitsOf(_)
DigitsOf(n) == IF n < 10 THEN <<Zero + n>> ELSE Append(DigitsOf(n \div 10), Zero + (n % 10))

\* String(n)
ToStr(n) == IF n < 0 THEN <<Hyphen>> \o DigitsOf(0 - n) ELSE DigitsOf(n)

\* s.padStart(2, '0')
PadStart2(s) == IF Len(s) < 2 THEN <<Zero>> \o s ELSE s

RECURSIVE NumberOf(_)
\* Number(s) for a string of decimal digits ('' gives 0)
NumberOf(s) ==
    IF s = <<>> THEN 0
    ELSE NumberOf(SubSeq(s, 1, Len(s) - 1)) * 10 + (s[Len(s)] - Zero)

RECURSIVE SplitHyphen(_)
\* s.split('-')
SplitHyphen(s) ==
    IF \A i \in 1..Len(s) : s[i] # Hyphen THEN <<s>>
    ELSE LET i == CHOOSE k \in 1..Len(s) :
                      s[k] = Hyphen /\ \A j \in 1..(k - 1) : s[j] # Hyphen
         IN  <<SubSeq(s, 1, i - 1)>> \o SplitHyphen(SubSeq(s, i + 1, Len(s)))

RECURSIVE StrLess(_, _)
\* a < b on strings: lexicographic by code unit, a proper prefix is smaller
StrLess(a, b) ==
    IF b = <<>> THEN FALSE
    ELSE IF a = <<>> THEN TRUE
    ELSE IF a[1] # b[1] THEN a[1] < b[1]
    ELSE StrLess(Tail(a), Tail(b))

RECURSIVE SortStrings(_)
\* Array.from(set).sort(): ascending by code unit
SortStrings(S) ==
    IF S = {} THEN <<>>
    ELSE LET lo == CHOOSE x \in S : \A y \in S \ {x} : StrLess(x, y)
         IN  <<lo>> \o SortStrings(S \ {lo})

-----------------------------------------------------------------------------
(* Date-key normaliser                                                     *)

\* the key of the client's local calendar day: getFullYear, getMonth and
\* getDate in place of the UTC getters
dateToKey_local(date) ==
    LET t     == date.ms + tz * 60000
        local == NewDate(date.day + (t \div 86400000), t % 86400000)
        year  == getUTCFullYear(local)
        month == PadStart2(ToStr(getUTCMonth(local) + 1))
        day   == PadStart2(ToStr(getUTCDate(local)))
    IN  ToStr(year) \o <<Hyphen>> \o month \o <<Hyphen>> \o day

dateToKey(date) ==
    LET year  == getUTCFullYear(date)
        month == PadStart2(ToStr(getUTCMonth(date) + 1))
        day   == PadStart2(ToStr(getUTCDate(date)))
    IN  ToStr(year) \o <<Hyphen>> \o month \o <<Hyphen>> \o day

keyToDate(key) ==
    LET parts == SplitHyphen(key)
        year  == NumberOf(parts[1])
        month == NumberOf(parts[2])
        day   == NumberOf(parts[3])
    IN  NewDate(DateUTC(year, month - 1, day), 0)

addDaysUTC(date, n) ==
    NewDate(DateUTC(getUTCFullYear(date), getUTCMonth(date), getUTCDate(date) + n), 0)

-----------------------------------------------------------------------------
(* Streak calculator                                                       *)

\* today at 00:00 UTC, from the clock
UtcMidnight(clock) ==
    NewDate(DateUTC(getUTCFullYear(clock), getUTCMonth(clock), getUTCDate(clock)), 0)

RECURSIVE CurrentStreakLoop(_, _, _)
\* while (dateKeys.has(dateToKey(cursor))) { streak += 1; cursor = addDaysUTC(cursor, -1) }
CurrentStreakLoop(keys, cursor, streak) ==
    IF dateToKey(cursor) \in keys
    THEN CurrentStreakLoop(keys, addDaysUTC(cursor, -1), streak + 1)
    ELSE streak

\* a streak that starts from yesterday when today is missing
calculateCurrentStreak_fromYesterday(keys, clock) ==
    IF Cardinality(keys) = 0 THEN 0
    ELSE IF dateToKey(UtcMidnight(clock)) \in keys
         THEN CurrentStreakLoop(keys, UtcMidnight(clock), 0)
         ELSE CurrentStreakLoop(keys, addDaysUTC(UtcMidnight(clock), -1), 0)

calculateCurrentStreak(keys, clock) ==
    IF Cardinality(keys) = 0 THEN 0
    ELSE CurrentStreakLoop(keys, UtcMidnight(clock), 0)

RECURSIVE BestStreakLoop(_, _, _, _, _)
\* for (const key of sortedKeys) { ... }
BestStreakLoop(sortedKeys, i, best, current, prevDate) ==
    IF i > Len(sortedKeys) THEN best
    ELSE LET key         == sortedKeys[i]
             currentDate == keyToDate(key)
             cur         == IF prevDate # NULL /\ dateToKey(addDaysUTC(prevDate, 1)) = key
                            THEN current + 1
                            ELSE 1
             bst         == IF cur > best THEN cur ELSE best
         IN  BestStreakLoop(sortedKeys, i + 1, bst, cur, currentDate)

RECURSIVE BestStreakLoop_noReset(_, _, _, _, _)
\* the loop without the reset of `current` at a gap
BestStreakLoop_noReset(sortedKeys, i, best, current, prevDate) ==
    IF i > Len(sortedKeys) THEN best
    ELSE LET cur == current + 1
             bst == IF cur > best THEN cur ELSE best
         IN  BestStreakLoop_noReset(sortedKeys, i + 1, bst, cur, keyToDate(sortedKeys[i]))

calculateBestStreak_noReset(keys) ==
    IF Cardinality(keys) = 0 THEN 0
    ELSE BestStreakLoop_noReset(SortStrings(keys), 1, 0, 0, NULL)

RECURSIVE BestStreakLoop_lastRun(_, _, _, _, _)
\* the loop returning the length of the last run instead of the longest
BestStreakLoop_lastRun(sortedKeys, i, best, current, prevDate) ==
    IF i > Len(sortedKeys) THEN current
    ELSE LET key == sortedKeys[i]
             cur == IF prevDate # NULL /\ dateToKey(addDaysUTC(prevDate, 1)) = key
                    THEN current + 1
                    ELSE 1
         IN  BestStreakLoop_lastRun(sortedKeys, i + 1, best, cur, keyToDate(key))

calculateBestStreak_lastRun(keys) ==
    IF Cardinality(keys) = 0 THEN 0
    ELSE BestStreakLoop_lastRun(SortStrings(keys), 1, 0, 0, NULL)

\* no test for the empty set, and a best run that starts at one
calculateBestStreak_fromOne(keys) ==
    BestStreakLoop(SortStrings(keys), 1, 1, 0, NULL)

calculateBestStreak(keys) ==
    IF Cardinality(keys) = 0 THEN 0
    ELSE BestStreakLoop(SortStrings(keys), 1, 0, 0, NULL)

-----------------------------------------------------------------------------
(* Frequency analyser                                                      *)

\* the length of the trailing window is 28 days: cutoff = today - 27
WindowBack == 27
WeeksInWindow == 4

RECURSIVE Gcd(_, _)
Gcd(a, b) == IF b = 0 THEN a ELSE Gcd(b, a % b)

\* the number a / b (a >= 0, b > 0), kept exact as a fraction in lowest terms
Quot(a, b) == [num |-> a \div Gcd(a, b), den |-> b \div Gcd(a, b)]

\* a window that starts 27 days before the instant of the clock, its time
\* of day included
calculateWeeklyFrequency_fromInstant(keys, clock) ==
    IF Cardinality(keys) = 0 THEN Quot(0, 1)
    ELSE LET cutoffDay == clock.day - WindowBack
             count     == Cardinality({key \in keys :
                              \/ keyToDate(key).day > cutoffDay
                              \/ keyToDate(key).day = cutoffDay /\ clock.ms = 0})
         IN  Quot(count, WeeksInWindow)

calculateWeeklyFrequency(keys, clock) ==
    IF Cardinality(keys) = 0 THEN Quot(0, 1)
    ELSE LET today     == UtcMidnight(clock)
             cutoff    == addDaysUTC(today, 0 - WindowBack)
             cutoffUtc == DateUTC(getUTCFullYear(cutoff), getUTCMonth(cutoff), getUTCDate(cutoff))
             dateUtc(key) ==
                 LET date == keyToDate(key)
                 IN  DateUTC(getUTCFullYear(date), getUTCMonth(date), getUTCDate(date))
             count     == Cardinality({key \in keys : dateUtc(key) >= cutoffUtc})
         IN  Quot(count, WeeksInWindow)

-----------------------------------------------------------------------------
(* Habit functions applied to a set of DayKeys, in the order of            *)
(* buildInsightsFromUserData.                                              *)

\* 2024-01-01
YearStart == DaysFromCivil(2024, 1, 1)

\* days around the year boundary, from which arbitrary sets are drawn
NearDays == (YearStart - NearSpan)..(YearStart + NearSpan - 1)

\* first days of the contiguous runs: around the start of the trailing window
RunStarts == (YearStart - WindowBack - RunSpan)..(YearStart - WindowBack + RunSpan - 1)

Runs == {{}} \cup {a..b : a \in RunStarts \cup NearDays, b \in NearDays}

DaySets == {X \cup R : X \in SUBSET NearDays, R \in Runs}

\* the first and the last millisecond of a day
TimesOfDay == {0, 86399999}

Clocks == {NewDate(d, t) : d \in (YearStart - 1)..(YearStart + 2), t \in TimesOfDay}

NoHabit == [step |-> 0, currentStreak |-> 0, bestStreak |-> 0, weeklyFrequency |-> Quot(0, 1)]

InitHabit ==
    /\ days \in DaySets
    /\ dateKeys = {dateToKey(NewDate(d, 0)) : d \in days}
    /\ now \in Clocks
    /\ habitOut = NoHabit
    /\ userId = NoUserId
    /\ groups = <<>>
    /\ finishedBooks = <<>>
    /\ records = <<>>
    /\ groupSentences = <<>>
    /\ insights = NULL
    /\ pc = "idle"
    /\ build = "idle"
    /\ req = <<>>
    /\ issued = <<>>
    /\ bookMapValues = <<>>
    /\ screen = InitialScreen
    /\ focused = FALSE
    /\ loads = <<>>
    /\ LateIdle

CurrentStreakStep ==
    /\ habitOut.step = 0
    /\ habitOut' = [habitOut EXCEPT !.step = 1,
                                    !.currentStreak = calculateCurrentStreak(dateKeys, now)]
    /\ UNCHANGED <<days, dateKeys, now, dataVars, insights, fetchVars, bookMapValues, screenVars, lateVars>>

BestStreakStep ==
    /\ habitOut.step = 1
    /\ habitOut' = [habitOut EXCEPT !.step = 2,
                                    !.bestStreak = calculateBestStreak(dateKeys)]
    /\ UNCHANGED <<days, dateKeys, now, dataVars, insights, fetchVars, bookMapValues, screenVars, lateVars>>

WeeklyFrequencyStep ==
    /\ habitOut.step = 2
    /\ habitOut' = [habitOut EXCEPT !.step = 3,
                                    !.weeklyFrequency = calculateWeeklyFrequency(dateKeys, now)]
    /\ UNCHANGED <<days, dateKeys, now, dataVars, insights, fetchVars, bookMapValues, screenVars, lateVars>>

NextHabit == CurrentStreakStep \/ BestStreakStep \/ WeeklyFrequencyStep

SpecHabit == InitHabit /\ [][NextHabit]_vars

-----------------------------------------------------------------------------
(* Properties of the habit functions                                       *)

\* the DayKeys "2023-12-30" .. "2024-01-03", written out
Key_2023_12_30 == <<50, 48, 50, 51, 45, 49, 50, 45, 51, 48>>
Key_2023_12_31 == <<50, 48, 50, 51, 45, 49, 50, 45, 51, 49>>
Key_2024_01_01 == <<50, 48, 50, 52, 45, 48, 49, 45, 48, 49>>
Key_2024_01_02 == <<50, 48, 50, 52, 45, 48, 49, 45, 48, 50>>
Key_2024_01_03 == <<50, 48, 50, 52, 45, 48, 49, 45, 48, 51>>

\* the length of the longest run of consecutive calendar days contained in D
LongestRun(D) ==
    IF D = {} THEN 0
    ELSE LET lens == {b - a + 1 : <<a, b>> \in {p \in D \X D : p[1] <= p[2] /\ \A x \in p[1]..p[2] : x \in D}}
         IN  CHOOSE n \in lens : \A k \in lens : k <= n

\* C1: the current streak is the number k such that today, today-1, ..,
\* today-(k-1) are all in S and today-k is not; it is 0 whenever today is
\* not in S, whether or not yesterday is.
C1_CurrentStreakIsRunEndingToday ==
    habitOut.step >= 1 =>
        LET k == habitOut.currentStreak
        IN  /\ k >= 0
            /\ \A i \in 0..(k - 1) : (now.day - i) \in days
            /\ (now.day - k) \notin days
            /\ (now.day \notin days => k = 0)

\* C1 witness: S = {2024-01-01, 2024-01-02, 2024-01-03}, today = 2024-01-03 gives 3
C1_Witness ==
    /\ habitOut.step >= 1
    /\ dateKeys = {Key_2024_01_01, Key_2024_01_02, Key_2024_01_03}
    /\ now.day = YearStart + 2
    /\ habitOut.currentStreak = 3

\* C2: for a non-empty S the best streak is the length of the longest run of
\* consecutive calendar days in S, across month and year boundaries; an
\* isolated day is a run of length 1.
C2_BestStreakIsLongestRun ==
    (habitOut.step >= 2 /\ days # {}) => habitOut.bestStreak = LongestRun(days)

\* C2 witness: a run of three days over the year boundary and an isolated day
C2_Witness ==
    /\ habitOut.step >= 2
    /\ dateKeys = {Key_2023_12_30, Key_2023_12_31, Key_2024_01_01, Key_2024_01_03}
    /\ habitOut.bestStreak = 3

\* C3: bestStreak(S) >= currentStreak(S), both computed from the same S
C3_BestAtLeastCurrent ==
    habitOut.step >= 2 => habitOut.bestStreak >= habitOut.currentStreak

\* C3 witness: the streak that ends today is the best one
C3_Witness ==
    /\ habitOut.step >= 2
    /\ habitOut.currentStreak >= 2
    /\ habitOut.bestStreak = habitOut.currentStreak
    /\ Cardinality(dateKeys) > habitOut.currentStreak

\* C4: the weekly frequency is the number of DayKeys d of S with
\* today-27 <= d <= today, divided by 4; older and later DayKeys are not counted.
C4_WeeklyFrequencyCountsTrailingWindow ==
    habitOut.step >= 3 =>
        habitOut.weeklyFrequency =
            Quot(Cardinality({d \in days : now.day - WindowBack <= d /\ d <= now.day}), 4)

-----------------------------------------------------------------------------
(* Aggregation over fetched data: buildInsightsFromUserData after its      *)
(* awaits (the record loop, completion, book tally, top books, result).    *)

\* the date strings records carry
DateStrings ==
    {"2024-01-01", "2024-01-01T23:59:59.999Z", "2023-12-31T12:00:00Z",
     "2024-01-02T09:00:00.000Z", "not-a-date", ""}

InvalidDate == [nan |-> TRUE]

\* the millisecond of the day of the wall-clock time h:mi:s.ms
TimeMs(h, mi, s, ms) == ((h * 60 + mi) * 60 + s) * 1000 + ms

\* the fields of a date-time string: calendar date, time of day, and the
\* zone designator, which is "Z", an offset in minutes, or absent
Iso(y, m, d, ms, dateOnly, zone, offset) ==
    [y |-> y, m |-> m, d |-> d, ms |-> ms, dateOnly |-> dateOnly, zone |-> zone, offset |-> offset]

\* the strings of the ECMAScript date-time format that the inputs contain
IsoStrings ==
    {"2024-01-01", "2023-12-05", "2023-12-04",
     "2023-12-06", "2023-12-07", "2023-12-08", "2023-12-09", "2023-12-10",
     "2023-12-11", "2023-12-12", "2023-12-13", "2023-12-14", "2023-12-15",
     "2023-12-16", "2023-12-17", "2023-12-18", "2023-12-19", "2023-12-20",
     "2023-12-21", "2023-12-22", "2023-12-23", "2023-12-24", "2023-12-25",
     "2023-12-26", "2023-12-27", "2023-12-28", "2023-12-29", "2023-12-30",
     "2024-01-01T23:59:59.999Z", "2024-01-01T23:59:59Z",
     "2024-01-01T00:00:00Z", "2024-01-01T00:00:00.000Z",
     "2023-12-31T12:00:00Z", "2024-01-02T09:00:00.000Z",
     "2024-01-02T08:30:00+09:00", "2024-01-02T08:30:00.500+09:00",
     "2023-12-31T20:00:00-05:00", "2024-01-01T23:30:00"}

IsoFields(value) ==
    CASE value = "2024-01-01"                    -> Iso(2024, 1, 1, 0, TRUE, "none", 0)
      [] value = "2023-12-05"                    -> Iso(2023, 12, 5, 0, TRUE, "none", 0)
      [] value = "2023-12-04"                    -> Iso(2023, 12, 4, 0, TRUE, "none", 0)
      [] value = "2023-12-06"                    -> Iso(2023, 12, 6, 0, TRUE, "none", 0)
      [] value = "2023-12-07"                    -> Iso(2023, 12, 7, 0, TRUE, "none", 0)
      [] value = "2023-12-08"                    -> Iso(2023, 12, 8, 0, TRUE, "none", 0)
      [] value = "2023-12-09"                    -> Iso(2023, 12, 9, 0, TRUE, "none", 0)
      [] value = "2023-12-10"                    -> Iso(2023, 12, 10, 0, TRUE, "none", 0)
      [] value = "2023-12-11"                    -> Iso(2023, 12, 11, 0, TRUE, "none", 0)
      [] value = "2023-12-12"                    -> Iso(2023, 12, 12, 0, TRUE, "none", 0)
      [] value = "2023-12-13"                    -> Iso(2023, 12, 13, 0, TRUE, "none", 0)
      [] value = "2023-12-14"                    -> Iso(2023, 12, 14, 0, TRUE, "none", 0)
      [] value = "2023-12-15"                    -> Iso(2023, 12, 15, 0, TRUE, "none", 0)
      [] value = "2023-12-16"                    -> Iso(2023, 12, 16, 0, TRUE, "none", 0)
      [] value = "2023-12-17"                    -> Iso(2023, 12, 17, 0, TRUE, "none", 0)
      [] value = "2023-12-18"                    -> Iso(2023, 12, 18, 0, TRUE, "none", 0)
      [] value = "2023-12-19"                    -> Iso(2023, 12, 19, 0, TRUE, "none", 0)
      [] value = "2023-12-20"                    -> Iso(2023, 12, 20, 0, TRUE, "none", 0)
      [] value = "2023-12-21"                    -> Iso(2023, 12, 21, 0, TRUE, "none", 0)
      [] value = "2023-12-22"                    -> Iso(2023, 12, 22, 0, TRUE, "none", 0)
      [] value = "2023-12-23"                    -> Iso(2023, 12, 23, 0, TRUE, "none", 0)
      [] value = "2023-12-24"                    -> Iso(2023, 12, 24, 0, TRUE, "none", 0)
      [] value = "2023-12-25"                    -> Iso(2023, 12, 25, 0, TRUE, "none", 0)
      [] value = "2023-12-26"                    -> Iso(2023, 12, 26, 0, TRUE, "none", 0)
      [] value = "2023-12-27"                    -> Iso(2023, 12, 27, 0, TRUE, "none", 0)
      [] value = "2023-12-28"                    -> Iso(2023, 12, 28, 0, TRUE, "none", 0)
      [] value = "2023-12-29"                    -> Iso(2023, 12, 29, 0, TRUE, "none", 0)
      [] value = "2023-12-30"                    -> Iso(2023, 12, 30, 0, TRUE, "none", 0)
      [] value = "2024-01-01T23:59:59.999Z"      -> Iso(2024, 1, 1, TimeMs(23, 59, 59, 999), FALSE, "Z", 0)
      [] value = "2024-01-01T23:59:59Z"          -> Iso(2024, 1, 1, TimeMs(23, 59, 59, 0), FALSE, "Z", 0)
      [] value = "2024-01-01T00:00:00Z"          -> Iso(2024, 1, 1, TimeMs(0, 0, 0, 0), FALSE, "Z", 0)
      [] value = "2024-01-01T00:00:00.000Z"      -> Iso(2024, 1, 1, TimeMs(0, 0, 0, 0), FALSE, "Z", 0)
      [] value = "2023-12-31T12:00:00Z"          -> Iso(2023, 12, 31, TimeMs(12, 0, 0, 0), FALSE, "Z", 0)
      [] value = "2024-01-02T09:00:00.000Z"      -> Iso(2024, 1, 2, TimeMs(9, 0, 0, 0), FALSE, "Z", 0)
      [] value = "2024-01-02T08:30:00+09:00"     -> Iso(2024, 1, 2, TimeMs(8, 30, 0, 0), FALSE, "offset", 540)
      [] value = "2024-01-02T08:30:00.500+09:00" -> Iso(2024, 1, 2, TimeMs(8, 30, 0, 500), FALSE, "offset", 540)
      [] value = "2023-12-31T20:00:00-05:00"     -> Iso(2023, 12, 31, TimeMs(20, 0, 0, 0), FALSE, "offset", -300)
      [] value = "2024-01-01T23:30:00"           -> Iso(2024, 1, 1, TimeMs(23, 30, 0, 0), FALSE, "none", 0)

\* the instant the fields f denote: a date-only form is UTC, a date-time
\* form is read in the zone it names and, if it names none, as local time of
\* the client
DateOfFields(f) ==
    LET shift == IF f.dateOnly \/ f.zone = "Z" THEN 0
                 ELSE IF f.zone = "offset" THEN f.offset ELSE tz
        t     == f.ms - shift * 60000
    IN  NewDate(DaysFromCivil(f.y, f.m, f.d) + (t \div 86400000), t % 86400000)

\* new Date(value): the instant of a string of the date-time format; any
\* other string gives an Invalid Date, whose getTime() is NaN
DateFromString(value) ==
    IF value \notin IsoStrings THEN InvalidDate ELSE DateOfFields(IsoFields(value))

\* an unparseable string taken for the epoch instead of null
parseRecordDate_epoch(value) ==
    LET parsed == DateFromString(value)
    IN  IF parsed = InvalidDate THEN NewDate(0, 0) ELSE parsed

parseRecordDate(value) ==
    LET parsed == DateFromString(value)
    IN  IF parsed = InvalidDate THEN NULL ELSE parsed

RECURSIVE RecordDatesLoop(_, _, _)
\* for (const record of records) { parsed = parseRecordDate(record.readDate); ... push }
RecordDatesLoop(recs, i, recordDates) ==
    IF i > Len(recs) THEN recordDates
    ELSE LET parsed == parseRecordDate(recs[i].readDate)
         IN  IF parsed = NULL
             THEN RecordDatesLoop(recs, i + 1, recordDates)
             ELSE RecordDatesLoop(recs, i + 1, Append(recordDates, parsed))

RecordDates(recs) == RecordDatesLoop(recs, 1, <<>>)

UniqueDateKeys(recs) ==
    LET recordDates == RecordDates(recs)
    IN  {dateToKey(recordDates[i]) : i \in DOMAIN recordDates}

Weekdays == {"mon", "tue", "wed", "thu", "fri", "sat", "sun"}

\* the switch on date.getUTCDay()
WeekdayBucket(n) ==
    CASE n = 1 -> "mon"
      [] n = 2 -> "tue"
      [] n = 3 -> "wed"
      [] n = 4 -> "thu"
      [] n = 5 -> "fri"
      [] n = 6 -> "sat"
      [] OTHER -> "sun"

\* the histogram over the distinct days instead of over the record dates
buildWeekdayDistribution_distinctDays(dates) ==
    [w \in Weekdays |->
        Cardinality({dates[i].day : i \in {j \in DOMAIN dates : WeekdayBucket(getUTCDay(dates[j])) = w}})]

buildWeekdayDistribution(dates) ==
    [w \in Weekdays |->
        Cardinality({i \in DOMAIN dates : WeekdayBucket(getUTCDay(dates[i])) = w})]

\* the groups minus the finished entries, whatever group they name
ActiveGroups_subtract(grps, fin) == Len(grps) - Len(fin)

\* groups.filter((group) => !finishedGroupIds.has(group.id)).length
ActiveGroups(grps, fin) ==
    LET finishedGroupIds == {fin[i].groupId : i \in DOMAIN fin}
    IN  Cardinality({i \in DOMAIN grps : grps[i].id \notin finishedGroupIds})

\* the quotient without the test for a zero denominator: 0 / 0 is NaN
CompletionRate_noGuard(grps, fin) ==
    IF Len(fin) + ActiveGroups(grps, fin) = 0
    THEN [nan |-> TRUE]
    ELSE Quot(Len(fin), Len(fin) + ActiveGroups(grps, fin))

CompletionRate(grps, fin) ==
    IF Len(fin) + ActiveGroups(grps, fin) = 0
    THEN Quot(0, 1)
    ELSE Quot(Len(fin), Len(fin) + ActiveGroups(grps, fin))

RECURSIVE BookMapLoop(_, _, _)
\* the Map isbn -> {isbn, title, recordCount}, as the sequence of its values in insertion order
BookMapLoop(recs, i, bookMap) ==
    IF i > Len(recs) THEN bookMap
    ELSE LET record == recs[i]
             isbn   == record.bookIsbn
             at     == {k \in DOMAIN bookMap : bookMap[k].isbn = isbn}
         IN  IF isbn = "" THEN BookMapLoop(recs, i + 1, bookMap)
             ELSE IF at # {}
             THEN LET k        == CHOOSE x \in at : TRUE
                      existing == bookMap[k]
                      title    == IF existing.title = "" /\ record.bookTitle # ""
                                  THEN record.bookTitle
                                  ELSE existing.title
                  IN  BookMapLoop(recs, i + 1,
                          [bookMap EXCEPT ![k] = [isbn |-> isbn, title |-> title,
                                                  recordCount |-> existing.recordCount + 1]])
             ELSE BookMapLoop(recs, i + 1,
                      Append(bookMap, [isbn |-> isbn, title |-> record.bookTitle,
                                       recordCount |-> 1]))

RECURSIVE BookMapLoop_noSkip(_, _, _)
\* the tally without the `if (!isbn) continue`
BookMapLoop_noSkip(recs, i, bookMap) ==
    IF i > Len(recs) THEN bookMap
    ELSE LET record == recs[i]
             isbn   == record.bookIsbn
             at     == {k \in DOMAIN bookMap : bookMap[k].isbn = isbn}
         IN  IF at # {}
             THEN LET k == CHOOSE x \in at : TRUE
                  IN  BookMapLoop_noSkip(recs, i + 1,
                          [bookMap EXCEPT ![k].recordCount = @ + 1])
             ELSE BookMapLoop_noSkip(recs, i + 1,
                      Append(bookMap, [isbn |-> isbn, title |-> record.bookTitle,
                                       recordCount |-> 1]))

BookMap_noSkip(recs) == BookMapLoop_noSkip(recs, 1, <<>>)

RECURSIVE BookMapLoop_lastTitle(_, _, _)
\* the tally with the title of the latest titled record
BookMapLoop_lastTitle(recs, i, bookMap) ==
    IF i > Len(recs) THEN bookMap
    ELSE LET record == recs[i]
             isbn   == record.bookIsbn
             at     == {k \in DOMAIN bookMap : bookMap[k].isbn = isbn}
         IN  IF isbn = "" THEN BookMapLoop_lastTitle(recs, i + 1, bookMap)
             ELSE IF at # {}
             THEN LET k        == CHOOSE x \in at : TRUE
                      existing == bookMap[k]
                      title    == IF record.bookTitle # "" THEN record.bookTitle ELSE existing.title
                  IN  BookMapLoop_lastTitle(recs, i + 1,
                          [bookMap EXCEPT ![k] = [isbn |-> isbn, title |-> title,
                                                  recordCount |-> existing.recordCount + 1]])
             ELSE BookMapLoop_lastTitle(recs, i + 1,
                      Append(bookMap, [isbn |-> isbn, title |-> record.bookTitle,
                                       recordCount |-> 1]))

BookMap_lastTitle(recs) == BookMapLoop_lastTitle(recs, 1, <<>>)

BookMap(recs) == BookMapLoop(recs, 1, <<>>)

\* the comparator (a, b) => b.recordCount - a.recordCount
CompareBooks(a, b) == b.recordCount - a.recordCount

\* x placed into a sorted list before the elements it ties with
InsertSorted_tiesFirst(sorted, x) ==
    LET before == {k \in DOMAIN sorted : CompareBooks(sorted[k], x) < 0}
        n      == Cardinality(before)
    IN  SubSeq(sorted, 1, n) \o <<x>> \o SubSeq(sorted, n + 1, Len(sorted))

\* x placed into a sorted list after every element that does not sort after it
InsertSorted(sorted, x) ==
    LET before == {k \in DOMAIN sorted : CompareBooks(sorted[k], x) <= 0}
        n      == Cardinality(before)
    IN  SubSeq(sorted, 1, n) \o <<x>> \o SubSeq(sorted, n + 1, Len(sorted))

RECURSIVE SortLoop(_, _, _)
\* Array.prototype.sort with the comparator: a stable sort
SortLoop(arr, i, sorted) ==
    IF i > Len(arr) THEN sorted
    ELSE SortLoop(arr, i + 1, InsertSorted(sorted, arr[i]))

TopCount == 3

\* the sorted tally without the slice
TopBooks_noSlice(recs) == SortLoop(BookMap(recs), 1, <<>>)

\* Array.from(bookMap.values()).sort(...).slice(0, 3)
TopBooks(recs) ==
    LET sorted == SortLoop(BookMap(recs), 1, <<>>)
    IN  SubSeq(sorted, 1, IF Len(sorted) < TopCount THEN Len(sorted) ELSE TopCount)

\* the InsightsResponse built from the fetched groups, finished list, records
\* and the user's sentences
BuildInsights(grps, fin, recs, sentences, clock) ==
    LET uniqueDateKeys == UniqueDateKeys(recs)
    IN  [habit |->
            [totalReadingDays    |-> Cardinality(uniqueDateKeys),
             currentStreak       |-> calculateCurrentStreak(uniqueDateKeys, clock),
             bestStreak          |-> calculateBestStreak(uniqueDateKeys),
             weeklyFrequency     |-> calculateWeeklyFrequency(uniqueDateKeys, clock),
             weekdayDistribution |-> buildWeekdayDistribution(RecordDates(recs))],
         completion |->
            [finishedBooks  |-> Len(fin),
             activeGroups   |-> ActiveGroups(grps, fin),
             completionRate |-> CompletionRate(grps, fin),
             avgFinishDays  |-> NULL],
         activity |->
            [totalRecords   |-> Len(recs),
             totalSentences |-> Len(sentences),
             topBooks       |-> TopBooks(recs)]]

RECURSIVE Flat(_)
\* responses.flat()
Flat(responses) ==
    IF responses = <<>> THEN <<>> ELSE Head(responses) \o Flat(Tail(responses))

\* the sentences of every author
UserSentences_all(uid, responses) == Flat(responses)

\* responses.flat().filter((sentence) => sentence.userId === userId)
UserSentences(uid, responses) ==
    SelectSeq(Flat(responses), LAMBDA sentence : sentence.userId = uid)

-----------------------------------------------------------------------------
(* The aggregation applied to fetched data                                 *)

SeqsUpTo(S, n) == UNION {[1..k -> S] : k \in 0..n}

Record(readDate, createdAt, bookIsbn, bookTitle) ==
    [readDate |-> readDate, createdAt |-> createdAt, bookIsbn |-> bookIsbn, bookTitle |-> bookTitle]

\* records that differ in their dates
DateRecords ==
    {Record(rd, "2024-01-02T09:00:00.000Z", isbn, "T") :
        rd \in {"2024-01-01", "2024-01-01T23:59:59.999Z", "2023-12-31T12:00:00Z", "not-a-date"},
        isbn \in {"", "A"}}
    \cup {Record("", "", isbn, "T") : isbn \in {"", "A"}}

\* records that differ in their book
BookRecords == {Record("2024-01-01", "2024-01-02T09:00:00.000Z", isbn, "T") : isbn \in {"", "A", "B", "C", "D"}}

\* records that differ in their book and its title
TitleRecords ==
    {Record("2024-01-01", "2024-01-02T09:00:00.000Z", isbn, title) :
        isbn \in {"A", "B"}, title \in {"", "T1", "T2"}}

Group(id) == [id |-> id]
FinishedGroup(groupId) == [groupId |-> groupId]
Sentence(uid) == [userId |-> uid]

GroupLists == {<<>>, <<Group("g1")>>, <<Group("g1"), Group("g2")>>, <<Group("g2"), Group("g1")>>}

FinishedLists ==
    {<<>>, <<FinishedGroup("g1")>>, <<FinishedGroup("g3")>>, <<FinishedGroup("g2"), FinishedGroup("g1")>>}

SentenceMaps ==
    {[g \in {"g1", "g2"} |-> <<>>],
     [g \in {"g1", "g2"} |-> IF g = "g1" THEN <<Sentence("u1"), Sentence("u2")>> ELSE <<Sentence("u1")>>],
     [g \in {"g1", "g2"} |-> IF g = "g1" THEN <<Sentence("u2")>> ELSE <<Sentence("u2"), Sentence("u1")>>]}

\* the read dates of 29 consecutive days, 2023-12-05 to 2024-01-02
MonthDates ==
    <<"2023-12-05", "2023-12-06", "2023-12-07", "2023-12-08", "2023-12-09",
      "2023-12-10", "2023-12-11", "2023-12-12", "2023-12-13", "2023-12-14",
      "2023-12-15", "2023-12-16", "2023-12-17", "2023-12-18", "2023-12-19",
      "2023-12-20", "2023-12-21", "2023-12-22", "2023-12-23", "2023-12-24",
      "2023-12-25", "2023-12-26", "2023-12-27", "2023-12-28", "2023-12-29",
      "2023-12-30", "2023-12-31T12:00:00Z", "2024-01-01", "2024-01-02T09:00:00.000Z">>

\* one record a day over those days
MonthRecords == [i \in DOMAIN MonthDates |-> Record(MonthDates[i], "2024-01-02T09:00:00.000Z", "A", "T")]

AggClocks == {NewDate(YearStart, 86399999), NewDate(YearStart + 1, 0)}

InitAggregate ==
    /\ days = {}
    /\ dateKeys = {}
    /\ habitOut = NoHabit
    /\ now \in AggClocks
    /\ userId = "u1"
    /\ \/ /\ records \in SeqsUpTo(DateRecords, MaxDateRecords)
          /\ groups = <<Group("g1")>>
          /\ finishedBooks = <<>>
          /\ groupSentences = [g \in {"g1", "g2"} |-> <<Sentence("u1")>>]
       \/ /\ records \in SeqsUpTo(BookRecords, MaxBookRecords)
          /\ groups = <<Group("g1")>>
          /\ finishedBooks = <<>>
          /\ groupSentences = [g \in {"g1", "g2"} |-> <<Sentence("u1")>>]
       \/ /\ records \in SeqsUpTo(TitleRecords, MaxTitleRecords)
          /\ groups = <<Group("g1")>>
          /\ finishedBooks = <<>>
          /\ groupSentences = [g \in {"g1", "g2"} |-> <<Sentence("u1")>>]
       \/ /\ records \in SeqsUpTo(DateRecords, 1)
          /\ groups \in GroupLists
          /\ finishedBooks \in FinishedLists
          /\ groupSentences \in SentenceMaps
    /\ insights = NULL
    /\ pc = "aggregate"
    /\ build = "aggregate"
    /\ req = <<>>
    /\ issued = <<>>
    /\ bookMapValues = <<>>
    /\ screen = InitialScreen
    /\ focused = FALSE
    /\ loads = <<>>
    /\ LateIdle

\* the responses of the per-group sentence queries, in the order of groupIds
SentenceResponses(grps, bySentenceGroup) ==
    [i \in DOMAIN grps |-> bySentenceGroup[grps[i].id]]

\* buildInsightsFromUserData once every query has been answered
Aggregate ==
    /\ pc = "aggregate"
    /\ insights = NULL
    /\ insights' = BuildInsights(groups, finishedBooks, records,
                       UserSentences(userId, SentenceResponses(groups, groupSentences)), now)
    /\ pc' = "resolved"
    /\ build' = "fulfilled"
    /\ bookMapValues' = BookMap(records)
    /\ UNCHANGED <<habitVars, now, dataVars, req, issued, screenVars, lateVars>>

\* Math.round(q * 100) for a fraction q >= 0
RoundPercent(q) == (200 * q.num + q.den) \div (2 * q.den)

\* Math.round(q) for a fraction q >= 0
MathRound(q) == (2 * q.num + q.den) \div (2 * q.den)

\* a line that takes null for a number: Math.round(null) is 0
AvgFinishLine_zero(avgFinishDays) ==
    Text("average days to finish: {0} days",
         <<IF avgFinishDays = NULL THEN 0 ELSE MathRound(avgFinishDays)>>)

\* avgFinishDays === null ? 'no record' : `${Math.round(avgFinishDays)} days`
AvgFinishLine(avgFinishDays) ==
    IF avgFinishDays = NULL
    THEN Text("average days to finish: no record", <<>>)
    ELSE Text("average days to finish: {0} days", <<MathRound(avgFinishDays)>>)

\* topBooks.map(book => `${book.title || 'untitled'} (${book.recordCount})`).join(', '), or 'none'
TopBooksText(topBooks) ==
    IF Len(topBooks) = 0 THEN Text("none", <<>>)
    ELSE Text("{0}",
              <<[i \in DOMAIN topBooks |->
                    [title |-> IF topBooks[i].title = "" THEN "untitled" ELSE topBooks[i].title,
                     recordCount |-> topBooks[i].recordCount]]>>)

\* the eleven lines fetchInsightsTextExample returns for a result
TextLines(data) ==
    <<Text("total reading days: {0}", <<data.habit.totalReadingDays>>),
      Text("current streak: {0} days", <<data.habit.currentStreak>>),
      Text("best streak: {0} days", <<data.habit.bestStreak>>),
      Text("weekly frequency: {0} days", <<data.habit.weeklyFrequency>>),
      Text("finished books: {0}", <<data.completion.finishedBooks>>),
      Text("active groups: {0}", <<data.completion.activeGroups>>),
      Text("completion rate: {0}%", <<RoundPercent(data.completion.completionRate)>>),
      AvgFinishLine(data.completion.avgFinishDays),
      Text("total records: {0}", <<data.activity.totalRecords>>),
      Text("total sentences: {0}", <<data.activity.totalSentences>>),
      Text("top books: {0}", <<TopBooksText(data.activity.topBooks)>>)>>

\* fetchInsightsTextExample, once its fetchInsights() has resolved
TextExample ==
    /\ pc = "resolved"
    /\ textExample = <<>>
    /\ textExample' = TextLines(insights)
    /\ UNCHANGED <<habitVars, now, dataVars, insights, fetchVars, bookMapValues,
                   screenVars, results, tz, sessionVars>>

NextAggregate == Aggregate \/ TextExample

SpecAggregate == InitAggregate /\ [][NextAggregate]_vars

\* the aggregation over a stretch of the 29 daily records
InitMonth ==
    /\ days = {}
    /\ dateKeys = {}
    /\ habitOut = NoHabit
    /\ now \in AggClocks
    /\ userId = "u1"
    /\ \E a \in DOMAIN MonthRecords, b \in DOMAIN MonthRecords :
            a <= b /\ records = SubSeq(MonthRecords, a, b)
    /\ groups = <<Group("g1")>>
    /\ finishedBooks = <<>>
    /\ groupSentences = [g \in {"g1", "g2"} |-> <<Sentence("u1")>>]
    /\ insights = NULL
    /\ pc = "aggregate"
    /\ build = "aggregate"
    /\ req = <<>>
    /\ issued = <<>>
    /\ bookMapValues = <<>>
    /\ screen = InitialScreen
    /\ focused = FALSE
    /\ loads = <<>>
    /\ LateIdle

SpecMonth == InitMonth /\ [][NextAggregate]_vars

-----------------------------------------------------------------------------
(* Properties of the aggregation                                           *)

\* what the calendar says about the date strings: the UTC day a string
\* denotes and its weekday
TrueDay(value) ==
    CASE value = "2024-01-01"               -> YearStart
      [] value = "2024-01-01T23:59:59.999Z" -> YearStart
      [] value = "2023-12-31T12:00:00Z"     -> YearStart - 1
      [] value = "2024-01-02T09:00:00.000Z" -> YearStart + 1

TrueWeekday(value) ==
    CASE value = "2024-01-01"               -> "mon"
      [] value = "2024-01-01T23:59:59.999Z" -> "mon"
      [] value = "2023-12-31T12:00:00Z"     -> "sun"
      [] value = "2024-01-02T09:00:00.000Z" -> "tue"

Parseable(value) == value \in {"2024-01-01", "2024-01-01T23:59:59.999Z", "2023-12-31T12:00:00Z",
                               "2024-01-02T09:00:00.000Z"}

\* the records whose readDate parses
DatedRecords == SelectSeq(records, LAMBDA r : Parseable(r.readDate))

SumOver(f) == f["mon"] + f["tue"] + f["wed"] + f["thu"] + f["fri"] + f["sat"] + f["sun"]

Tally(isbn) == Cardinality({i \in DOMAIN records : records[i].bookIsbn = isbn})

FirstSeen(isbn) ==
    CHOOSE i \in DOMAIN records :
        records[i].bookIsbn = isbn /\ \A j \in 1..(i - 1) : records[j].bookIsbn # isbn

Isbns == {records[i].bookIsbn : i \in DOMAIN records} \ {""}

\* book a ranks before book b
RanksBefore(a, b) ==
    \/ Tally(a) > Tally(b)
    \/ Tally(a) = Tally(b) /\ FirstSeen(a) < FirstSeen(b)

\* C7: the DayKey of a record comes from readDate when it parses and from
\* createdAt otherwise, so a record with an unparseable readDate and a
\* parseable createdAt contributes a reading day.
C7_DayKeyFallsBackToCreatedAt ==
    pc = "resolved" =>
        insights.habit.totalReadingDays =
            Cardinality({TrueDay(IF Parseable(records[i].readDate)
                                 THEN records[i].readDate
                                 ELSE records[i].createdAt) :
                         i \in {j \in DOMAIN records :
                                  Parseable(records[j].readDate) \/ Parseable(records[j].createdAt)}})

\* C8: a record without a parseable date is left out of every day-based
\* aggregate, the aggregation still completes, and the record still counts
\* in totalRecords and in its book's recordCount.
C8_UndatedRecordOnlyLeavesDayAggregates ==
    pc = "resolved" =>
        /\ insights.habit =
               BuildInsights(groups, finishedBooks, DatedRecords, <<>>, now).habit
        /\ insights.habit.totalReadingDays =
               Cardinality({TrueDay(DatedRecords[i].readDate) : i \in DOMAIN DatedRecords})
        /\ SumOver(insights.habit.weekdayDistribution) = Len(DatedRecords)
        /\ insights.activity.totalRecords = Len(records)
        /\ \A i \in DOMAIN insights.activity.topBooks :
               insights.activity.topBooks[i].recordCount = Tally(insights.activity.topBooks[i].isbn)

\* C8 witness: an undated record of book A next to a dated record of book A
C8_Witness ==
    /\ pc = "resolved"
    /\ Len(records) = 2
    /\ records[1].readDate = "not-a-date" /\ records[1].bookIsbn = "A"
    /\ records[2].readDate = "2024-01-01" /\ records[2].bookIsbn = "A"
    /\ insights.habit.totalReadingDays = 1
    /\ insights.activity.totalRecords = 2
    /\ insights.activity.topBooks = <<[isbn |-> "A", title |-> "T", recordCount |-> 2]>>

\* C9: each weekday bucket is the number of records, duplicates of a day
\* included, whose parsed date falls on that UTC weekday; the buckets sum to
\* the number of dated records.
C9_WeekdayHistogramCountsRecords ==
    pc = "resolved" =>
        /\ \A w \in Weekdays :
               insights.habit.weekdayDistribution[w] =
                   Cardinality({i \in DOMAIN DatedRecords : TrueWeekday(DatedRecords[i].readDate) = w})
        /\ SumOver(insights.habit.weekdayDistribution) = Len(DatedRecords)

\* C9 witness: two records on one Monday and one on a Sunday give more
\* histogram entries than reading days
C9_Witness ==
    /\ pc = "resolved"
    /\ insights.habit.weekdayDistribution["mon"] = 2
    /\ insights.habit.weekdayDistribution["sun"] = 1
    /\ insights.habit.totalReadingDays = 2
    /\ SumOver(insights.habit.weekdayDistribution) > insights.habit.totalReadingDays

\* C10: topBooks lists the books by descending recordCount, books with equal
\* counts in the order their ISBN was first met, cut to the first 3.
C10_TopBooksOrder ==
    pc = "resolved" =>
        LET tb     == insights.activity.topBooks
            listed == {tb[i].isbn : i \in DOMAIN tb}
        IN  /\ Len(tb) = (IF Cardinality(Isbns) < 3 THEN Cardinality(Isbns) ELSE 3)
            /\ \A i \in DOMAIN tb : tb[i].isbn \in Isbns /\ tb[i].recordCount = Tally(tb[i].isbn)
            /\ \A i, j \in DOMAIN tb : i < j => RanksBefore(tb[i].isbn, tb[j].isbn)
            /\ \A x \in Isbns \ listed : \A i \in DOMAIN tb : RanksBefore(tb[i].isbn, x)

\* C10 witness: isbns [A, B, B, C, D] give [{B, 2}, {A, 1}, {C, 1}]
C10_Witness ==
    /\ pc = "resolved"
    /\ [i \in DOMAIN records |-> records[i].bookIsbn] = <<"A", "B", "B", "C", "D">>
    /\ [i \in DOMAIN insights.activity.topBooks |->
            <<insights.activity.topBooks[i].isbn, insights.activity.topBooks[i].recordCount>>]
         = <<(<<"B", 2>>), (<<"A", 1>>), (<<"C", 1>>)>>

-----------------------------------------------------------------------------
(* fetchInsights: the local aggregation with its upstream queries, and the *)
(* fallback to the remote pre-computed endpoint.                           *)

\* the three queries of the first Promise.all
DataKeys == {"groups", "finishedBooks", "records"}
\* the group ids the sentence queries are keyed by
SentenceKeys == {"g1", "g2"}
\* the remote pre-computed endpoint /api/insights
RemoteKey == "insights"
RequestKeys == DataKeys \cup SentenceKeys \cup {RemoteKey}
QueryKeys == RequestKeys \cup {"session"}

\* what /api/insights answers with: a result computed by the server
RemoteInsights ==
    [habit |->
        [totalReadingDays |-> 40, currentStreak |-> 4, bestStreak |-> 9,
         weeklyFrequency |-> Quot(5, 2),
         weekdayDistribution |-> [w \in Weekdays |-> 6]],
     completion |->
        [finishedBooks |-> 3, activeGroups |-> 1, completionRate |-> Quot(3, 4),
         avgFinishDays |-> Quot(12, 1)],
     activity |->
        [totalRecords |-> 42, totalSentences |-> 7, topBooks |-> <<>>]]

InitFetch ==
    /\ days = {}
    /\ dateKeys = {}
    /\ habitOut = NoHabit
    /\ now = NewDate(YearStart + 1, 0)
    /\ userId \in {"u1", NoUserId}
    /\ groups \in GroupLists
    /\ finishedBooks \in {<<>>, <<FinishedGroup("g1")>>}
    /\ records \in SeqsUpTo({Record("2024-01-01", "2024-01-02T09:00:00.000Z", "A", "T")}, 1)
    /\ groupSentences = [g \in SentenceKeys |->
                            IF g = "g1" THEN <<Sentence("u1"), Sentence("u2")>> ELSE <<Sentence("u1")>>]
    /\ insights = NULL
    /\ pc = "idle"
    /\ build = "idle"
    /\ req = [k \in RequestKeys |-> "idle"]
    /\ issued = [k \in QueryKeys |-> 0]
    /\ bookMapValues = <<>>
    /\ screen = InitialScreen
    /\ focused = FALSE
    /\ loads = <<>>
    /\ LateIdle

\* the aggregation going on without the test of the user id
HasUserId_unchecked(uid) == TRUE

\* the test `if (!userId) throw new Error('Missing user id')`, negated
HasUserId(uid) == uid # NoUserId

\* Promise.any in the place of Promise.all: fulfilled by the first success
PromiseAll_any(r, keys) ==
    IF \E k \in keys : r[k] = "ok" THEN "fulfilled"
    ELSE IF \A k \in keys : r[k] = "fail" THEN "rejected"
    ELSE "pending"

\* Promise.allSettled in the place of Promise.all: waits for every request
\* and fulfils whatever their outcomes
PromiseAll_settled(r, keys) ==
    IF \A k \in keys : r[k] \in {"ok", "fail"} THEN "fulfilled" ELSE "pending"

\* Promise.all over the requests `keys`: rejected as soon as one fails,
\* fulfilled once all have succeeded
PromiseAll(r, keys) ==
    IF \E k \in keys : r[k] = "fail" THEN "rejected"
    ELSE IF \A k \in keys : r[k] = "ok" THEN "fulfilled"
    ELSE "pending"

\* fetchInsights without its catch block
FetchInsightsOnBuild_rethrow(settled) ==
    IF settled = "fulfilled" THEN "return" ELSE "throw"

\* the try/catch of fetchInsights: return the local result, or request the
\* remote endpoint when the local aggregation threw
FetchInsightsOnBuild(settled) ==
    IF settled = "fulfilled" THEN "return" ELSE "request"

\* the value a request delivered
Received(r, k, data) == IF r[k] = "ok" THEN data ELSE <<>>

\* the ids of the groups that are not in the finished list
GroupIds_unfinished(grps) ==
    LET ids == [i \in DOMAIN grps |-> grps[i].id]
    IN  SelectSeq(ids, LAMBDA id : \A j \in DOMAIN finishedBooks : finishedBooks[j].groupId # id)

\* groups.map((group) => group.id)
GroupIds(grps) == [i \in DOMAIN grps |-> grps[i].id]

Range(f) == {f[i] : i \in DOMAIN f}

\* the local result from what the requests delivered
LocalInsights(r) ==
    LET grps      == Received(r, "groups", groups)
        groupIds  == GroupIds(grps)
        responses == [i \in DOMAIN groupIds |-> Received(r, groupIds[i], groupSentences[groupIds[i]])]
    IN  BuildInsights(grps, Received(r, "finishedBooks", finishedBooks),
                      Received(r, "records", records), UserSentences(userId, responses), now)

\* buildInsightsFromUserData returned; fetchInsights returns its result
BuildFulfilled(r) ==
    /\ build' = "fulfilled"
    /\ pc' = "resolved"
    /\ insights' = LocalInsights(r)
    /\ req' = r
    /\ UNCHANGED issued

\* buildInsightsFromUserData threw; fetchInsights catches
BuildRejected(r) ==
    /\ build' = "rejected"
    /\ IF FetchInsightsOnBuild("rejected") = "request"
       THEN /\ pc' = "fallback"
            /\ req' = [r EXCEPT ![RemoteKey] = "pending"]
            /\ issued' = [issued EXCEPT ![RemoteKey] = @ + 1]
       ELSE /\ pc' = "rejected"
            /\ req' = r
            /\ UNCHANGED issued
    /\ UNCHANGED insights

\* fetchInsights() is called: buildInsightsFromUserData awaits getUserId()
CallFetchInsights ==
    /\ pc = "idle"
    /\ pc' = "local"
    /\ build' = "session"
    /\ issued' = [issued EXCEPT !["session"] = @ + 1]
    /\ UNCHANGED <<habitVars, now, dataVars, insights, req, bookMapValues, screenVars, lateVars>>

\* getUserId() settles: with an id the three queries start together;
\* without one, or when the storage read fails, the aggregation throws
SessionSettles ==
    /\ build = "session"
    /\ \E storageOk \in BOOLEAN :
          IF storageOk /\ HasUserId(userId)
          THEN /\ build' = "data"
               /\ req' = [k \in RequestKeys |-> IF k \in DataKeys THEN "pending" ELSE req[k]]
               /\ issued' = [k \in QueryKeys |-> IF k \in DataKeys THEN issued[k] + 1 ELSE issued[k]]
               /\ UNCHANGED <<pc, insights>>
          ELSE BuildRejected(req)
    /\ UNCHANGED <<habitVars, now, dataVars, bookMapValues, screenVars, lateVars>>

\* one of the three queries settles
DataSettles(k, outcome) ==
    /\ k \in DataKeys
    /\ req[k] = "pending"
    /\ LET r        == [req EXCEPT ![k] = outcome]
           groupIds == GroupIds(Received(r, "groups", groups))
       IN  IF build # "data"
           THEN /\ req' = r
                /\ UNCHANGED <<pc, build, issued, insights>>
           ELSE CASE PromiseAll(r, DataKeys) = "rejected" -> BuildRejected(r)
                  [] PromiseAll(r, DataKeys) = "pending" ->
                        /\ req' = r
                        /\ UNCHANGED <<pc, build, issued, insights>>
                  [] PromiseAll(r, DataKeys) = "fulfilled" ->
                        IF Len(groupIds) = 0
                        THEN BuildFulfilled(r)
                        ELSE /\ build' = "sentences"
                             /\ req' = [q \in RequestKeys |->
                                           IF q \in Range(groupIds) THEN "pending" ELSE r[q]]
                             /\ issued' = [q \in QueryKeys |->
                                              issued[q] + Cardinality({i \in DOMAIN groupIds : groupIds[i] = q})]
                             /\ UNCHANGED <<pc, insights>>
    /\ UNCHANGED <<habitVars, now, dataVars, bookMapValues, screenVars, lateVars>>

\* the sentence query of one group settles
SentencesSettle(g, outcome) ==
    /\ g \in SentenceKeys
    /\ req[g] = "pending"
    /\ LET r        == [req EXCEPT ![g] = outcome]
           groupIds == GroupIds(Received(r, "groups", groups))
       IN  IF build # "sentences"
           THEN /\ req' = r
                /\ UNCHANGED <<pc, build, issued, insights>>
           ELSE CASE PromiseAll(r, Range(groupIds)) = "rejected" -> BuildRejected(r)
                  [] PromiseAll(r, Range(groupIds)) = "pending" ->
                        /\ req' = r
                        /\ UNCHANGED <<pc, build, issued, insights>>
                  [] PromiseAll(r, Range(groupIds)) = "fulfilled" -> BuildFulfilled(r)
    /\ UNCHANGED <<habitVars, now, dataVars, bookMapValues, screenVars, lateVars>>

\* the request to /api/insights settles
RemoteSettles(outcome) ==
    /\ pc = "fallback"
    /\ req[RemoteKey] = "pending"
    /\ req' = [req EXCEPT ![RemoteKey] = outcome]
    /\ IF outcome = "ok"
       THEN pc' = "resolved" /\ insights' = RemoteInsights
       ELSE pc' = "rejected" /\ UNCHANGED insights
    /\ UNCHANGED <<habitVars, now, dataVars, build, issued, bookMapValues, screenVars, lateVars>>

NextFetch ==
    \/ CallFetchInsights
    \/ SessionSettles
    \/ \E k \in DataKeys, outcome \in {"ok", "fail"} : DataSettles(k, outcome)
    \/ \E g \in SentenceKeys, outcome \in {"ok", "fail"} : SentencesSettle(g, outcome)
    \/ \E outcome \in {"ok", "fail"} : RemoteSettles(outcome)

SpecFetch == InitFetch /\ [][NextFetch]_vars

-----------------------------------------------------------------------------
(* Properties of fetchInsights                                             *)

\* the result of an aggregation over the complete upstream data
CompleteLocalInsights ==
    BuildInsights(groups, finishedBooks, records,
                  UserSentences(userId, SentenceResponses(groups, groupSentences)), now)

\* C5: fetchInsights resolves with a result computed from one complete set of
\* successfully fetched inputs, or with the remote result taken whole, or it
\* rejects; it publishes nothing otherwise.
C5_NoHalfBuiltResult ==
    /\ pc = "resolved" =>
          \/ /\ build = "fulfilled"
             /\ userId # NoUserId
             /\ \A k \in DataKeys \cup Range(GroupIds(groups)) : req[k] = "ok"
             /\ insights = CompleteLocalInsights
          \/ /\ build = "rejected"
             /\ req[RemoteKey] = "ok"
             /\ insights = RemoteInsights
    /\ pc # "resolved" => insights = NULL

\* C5 witness: one group's sentences arrived, the other group's query failed,
\* and the call resolved with the remote result
C5_Witness ==
    /\ pc = "resolved"
    /\ req["g1"] = "ok"
    /\ req["g2"] = "fail"
    /\ insights = RemoteInsights

\* C6: whenever the local aggregation fails, exactly one request goes to
\* /api/insights and its result is returned; fetchInsights rejects only if
\* that request fails too; a successful aggregation never requests it.
C6_FallbackOnLocalFailure ==
    /\ build = "rejected" => issued[RemoteKey] = 1
    /\ build # "rejected" => issued[RemoteKey] = 0 /\ req[RemoteKey] = "idle"
    /\ (build = "data" /\ \E k \in DataKeys : req[k] = "fail") => FALSE
    /\ (build = "sentences" /\ \E g \in Range(GroupIds(groups)) : req[g] = "fail") => FALSE
    /\ (build \in {"data", "sentences", "fulfilled"}) => userId # NoUserId
    /\ (build = "rejected" /\ req[RemoteKey] = "ok") => pc = "resolved" /\ insights = RemoteInsights
    /\ pc = "rejected" <=> (build = "rejected" /\ req[RemoteKey] = "fail")
    /\ build = "fulfilled" => pc = "resolved"

\* C6 witness: the records query failed while the groups query succeeded, and
\* the single remote request supplied the result
C6_Witness ==
    /\ pc = "resolved"
    /\ build = "rejected"
    /\ req["groups"] = "ok"
    /\ req["records"] = "fail"
    /\ issued[RemoteKey] = 1
    /\ insights = RemoteInsights

-----------------------------------------------------------------------------
(* Properties of the book tally                                            *)

RECURSIVE SumCounts(_)
SumCounts(entries) ==
    IF entries = <<>> THEN 0 ELSE Head(entries).recordCount + SumCounts(Tail(entries))

\* the title of the first record of the book that has a title, '' if none has
FirstTitle(isbn) ==
    LET titled == {i \in DOMAIN records : records[i].bookIsbn = isbn /\ records[i].bookTitle # ""}
    IN  IF titled = {} THEN ""
        ELSE records[CHOOSE i \in titled : \A j \in titled : i <= j].bookTitle

\* C11: records with an empty bookIsbn are skipped; every other ISBN has one
\* entry whose recordCount is the number of records carrying that ISBN, and
\* the counts sum to the number of records with a non-empty ISBN.
C11_TallyCountsRecordsPerIsbn ==
    pc = "resolved" =>
        /\ {bookMapValues[k].isbn : k \in DOMAIN bookMapValues} = Isbns
        /\ \A k, l \in DOMAIN bookMapValues :
               bookMapValues[k].isbn = bookMapValues[l].isbn => k = l
        /\ \A k \in DOMAIN bookMapValues :
               /\ bookMapValues[k].isbn # ""
               /\ bookMapValues[k].recordCount = Tally(bookMapValues[k].isbn)
        /\ SumCounts(bookMapValues) =
               Cardinality({i \in DOMAIN records : records[i].bookIsbn # ""})

\* C11 witness: isbns [A, '', B, A] give A twice and B once
C11_Witness ==
    /\ pc = "resolved"
    /\ [i \in DOMAIN records |-> records[i].bookIsbn] = <<"A", "", "B", "A">>
    /\ [k \in DOMAIN bookMapValues |-> <<bookMapValues[k].isbn, bookMapValues[k].recordCount>>]
         = <<(<<"A", 2>>), (<<"B", 1>>)>>

\* C12: the title carried for an ISBN is the bookTitle of its first record
\* with a non-empty title; it is empty only if no record of the ISBN has a
\* title, and a later record never replaces a title that is set.
C12_TitleIsFirstNonEmpty ==
    pc = "resolved" =>
        \A k \in DOMAIN bookMapValues :
            bookMapValues[k].title = FirstTitle(bookMapValues[k].isbn)

\* C12 witness: book A with the titles ['', T1, T2] is shown as T1
C12_Witness ==
    /\ pc = "resolved"
    /\ [i \in DOMAIN records |-> <<records[i].bookIsbn, records[i].bookTitle>>]
         = <<(<<"A", "">>), (<<"A", "T1">>), (<<"A", "T2">>)>>
    /\ bookMapValues = <<[isbn |-> "A", title |-> "T1", recordCount |-> 3]>>

-----------------------------------------------------------------------------
(* Properties of the completion tracker                                    *)

\* C13: completionRate is finishedBooks / (finishedBooks + activeGroups), and
\* 0 when that sum is 0; it lies between 0 and 1.
C13_CompletionRate ==
    pc = "resolved" =>
        LET f == insights.completion.finishedBooks
            a == insights.completion.activeGroups
            r == insights.completion.completionRate
        IN  /\ f = Len(finishedBooks)
            /\ f + a = 0 => r = Quot(0, 1)
            /\ r.den > 0
            /\ f + a > 0 => r.num * (f + a) = f * r.den
            /\ 0 <= r.num /\ r.num <= r.den

\* C13 witness: no group and no finished entry give the rate 0
C13_Witness ==
    /\ pc = "resolved"
    /\ groups = <<>>
    /\ finishedBooks = <<>>
    /\ insights.completion.finishedBooks + insights.completion.activeGroups = 0
    /\ insights.completion.completionRate = Quot(0, 1)

\* C14: activeGroups is the number of fetched groups whose id is the groupId
\* of no finished entry; a finished entry of a group that is not in the list
\* changes nothing.
C14_ActiveGroups ==
    pc = "resolved" =>
        insights.completion.activeGroups =
            Cardinality({i \in DOMAIN groups :
                            \A j \in DOMAIN finishedBooks : finishedBooks[j].groupId # groups[i].id})

\* C14 witness: one group, and a finished entry that names another group
C14_Witness ==
    /\ pc = "resolved"
    /\ groups = <<Group("g1")>>
    /\ finishedBooks = <<FinishedGroup("g3")>>
    /\ insights.completion.activeGroups = 1

-----------------------------------------------------------------------------
(* Properties of the upstream queries                                      *)

\* the queries of one aggregation: groups, finished groups, records, and the
\* sentences of each group id
UpstreamKeys == DataKeys \cup SentenceKeys

\* C15: without a user id the aggregation fails before any groups,
\* finished-groups, records or sentences query is issued, the failure reaches
\* its caller, and the session lookup is made once only.
C15_MissingUserIdFailsClosed ==
    userId = NoUserId =>
        /\ \A k \in UpstreamKeys : issued[k] = 0 /\ req[k] = "idle"
        /\ build \in {"idle", "session", "rejected"}
        /\ issued["session"] <= 1
        /\ build = "rejected" => pc \in {"fallback", "resolved", "rejected"}

\* C15 witness: the lookup gave no id and fetchInsights is in its catch block
C15_Witness ==
    /\ userId = NoUserId
    /\ build = "rejected"
    /\ pc = "fallback"
    /\ issued["session"] = 1
    /\ \A k \in UpstreamKeys : issued[k] = 0

\* C16: each upstream query is issued at most once in a call, and the failure
\* of any one of them fails the local aggregation, whatever the others did.
C16_NoRetrySingleFailureAborts ==
    /\ \A k \in UpstreamKeys : issued[k] <= 1
    /\ (\E k \in UpstreamKeys : req[k] = "fail") => build = "rejected"

\* C16 witness: every query succeeded but the sentences of g2
C16_Witness ==
    /\ build = "rejected"
    /\ \A k \in DataKeys \cup {"g1"} : req[k] = "ok" /\ issued[k] = 1
    /\ req["g2"] = "fail"
    /\ issued["g2"] = 1

\* the sentences of the fetched groups that the user wrote
OwnSentences ==
    UNION {{<<i, j>> : j \in {n \in DOMAIN groupSentences[groups[i].id] :
                                 groupSentences[groups[i].id][n].userId = userId}} :
           i \in DOMAIN groups}

\* C17: whatever order the sentence queries complete in, totalSentences is
\* the number of sentences of the fetched groups written by the current
\* user; with no group it is 0 and no sentence query is issued.
C17_SentenceTally ==
    /\ build = "fulfilled" => insights.activity.totalSentences = Cardinality(OwnSentences)
    /\ groups = <<>> => \A g \in SentenceKeys : issued[g] = 0 /\ req[g] = "idle"
    /\ (build = "fulfilled" /\ groups = <<>>) => insights.activity.totalSentences = 0

\* C17 witness: two groups with three sentences, two of them the user's
C17_Witness ==
    /\ build = "fulfilled"
    /\ Len(groups) = 2
    /\ Len(groupSentences["g1"]) + Len(groupSentences["g2"]) = 3
    /\ insights.activity.totalSentences = 2

-----------------------------------------------------------------------------
(* ReadingInsightsScreen: loadInsights and the focus effect                *)

\* the four sentences of the fallback summary, with the values they quote
FallbackTemplate ==
    "streak {0} days, weekly {1} days. finished {2}, rate {3}%. records {4}, sentences {5}. keep the rhythm."

buildInsightsFallbackSummary(data) ==
    Text(FallbackTemplate,
         <<data.habit.currentStreak, data.habit.weeklyFrequency,
           data.completion.finishedBooks, RoundPercent(data.completion.completionRate),
           data.activity.totalRecords, data.activity.totalSentences>>)

\* the strings the summary endpoint may send
SummaryStrings == {"AI summary", " AI summary ", "   ", ""}

\* s.trim()
Trim(s) ==
    CASE s = " AI summary " -> "AI summary"
      [] s = "   "          -> ""
      [] OTHER              -> s

\* the payloads of /api/insights/ai-summary: a string, an object with a
\* summary, an object whose summary is null, an object without one, null
SummaryPayloads ==
    {[type |-> "string", has |-> FALSE, isNull |-> FALSE, value |-> v] : v \in SummaryStrings}
    \cup {[type |-> "object", has |-> TRUE, isNull |-> FALSE, value |-> v] : v \in SummaryStrings}
    \cup {[type |-> "object", has |-> TRUE, isNull |-> TRUE, value |-> ""],
          [type |-> "object", has |-> FALSE, isNull |-> FALSE, value |-> ""],
          [type |-> "null", has |-> FALSE, isNull |-> TRUE, value |-> ""]}

normalizeInsightsSummary(payload) ==
    IF payload.type = "string" THEN payload.value
    ELSE IF payload.type = "object" /\ payload.has
         THEN (IF payload.isNull THEN "" ELSE payload.value)
         ELSE ""

\* what fetchInsights may reject with: an ApiClientError carrying the
\* message of the server's error body (which may be the empty string, or
\* absent from a { success: false } body, and then Error's message is ""),
\* or any other error
FetchErrors ==
    {[api |-> TRUE, message |-> "Request failed (500)"],
     [api |-> TRUE, message |-> ""],
     [api |-> FALSE, message |-> "Network request failed"]}

DefaultErrorMessage == "could not load the insights"

\* error instanceof ApiClientError ? error.message : the default text
ErrorMessage(error) == IF error.api THEN error.message ELSE DefaultErrorMessage

\* a result of the local aggregation: two groups of which one is finished,
\* one record of Monday 2024-01-01 for book A, one sentence, read on the
\* day of the record
LocalSample ==
    [habit |->
        [totalReadingDays |-> 1, currentStreak |-> 1, bestStreak |-> 1,
         weeklyFrequency |-> Quot(1, 4),
         weekdayDistribution |-> [w \in Weekdays |-> IF w = "mon" THEN 1 ELSE 0]],
     completion |->
        [finishedBooks |-> 1, activeGroups |-> 1, completionRate |-> Quot(1, 2),
         avgFinishDays |-> NULL],
     activity |->
        [totalRecords |-> 1, totalSentences |-> 1,
         topBooks |-> <<[isbn |-> "A", title |-> "T", recordCount |-> 1]>>]]

\* what fetchInsights may resolve with
FetchedData(kind) == IF kind = "local" THEN LocalSample ELSE RemoteInsights

\* the test `isActiveRef && !isActiveRef.current`, negated
StillActive(load) == load.active

\* a finally block that clears the loading flag whatever the focus
Finally_unguarded(scr, load) == [scr EXCEPT !.isLoading = FALSE]

\* finally { if (!isActiveRef || isActiveRef.current) setIsLoading(false) }
Finally(scr, load) == IF StillActive(load) THEN [scr EXCEPT !.isLoading = FALSE] ELSE scr

\* the start of loadInsights, up to its first await
OnLoadStart(scr) ==
    [scr EXCEPT !.isLoading = TRUE, !.insightsError = NULL, !.summaryText = EmptyText]

\* fetchInsights resolved: setInsights(data) unless the focus was lost
OnFetchResolved(scr, load, data) ==
    IF StillActive(load) THEN [scr EXCEPT !.insights = data] ELSE Finally(scr, load)

\* fetchInsights rejected: the outer catch block
OnFetchRejected(scr, load, error) ==
    IF StillActive(load)
    THEN Finally([scr EXCEPT !.insights = NULL,
                             !.insightsError = [message |-> ErrorMessage(error)]], load)
    ELSE Finally(scr, load)

\* the summary taken as it comes, blank or not
OnSummaryResolved_noFallback(scr, load, payload) ==
    IF StillActive(load)
    THEN Finally([scr EXCEPT !.summaryText = Text(Trim(normalizeInsightsSummary(payload)), <<>>)], load)
    ELSE Finally(scr, load)

\* fetchInsightsAISummary resolved: the trimmed summary, or the fallback text
OnSummaryResolved(scr, load, payload) ==
    IF StillActive(load)
    THEN LET aiSummary == normalizeInsightsSummary(payload)
             normalizedSummary == IF Trim(aiSummary) # ""
                                  THEN Text(Trim(aiSummary), <<>>)
                                  ELSE buildInsightsFallbackSummary(load.data)
         IN  Finally([scr EXCEPT !.summaryText = normalizedSummary], load)
    ELSE Finally(scr, load)

\* an inner catch block that is not followed by the finally block
OnSummaryRejected_noFinally(scr, load) ==
    IF StillActive(load)
    THEN [scr EXCEPT !.summaryText = buildInsightsFallbackSummary(load.data)]
    ELSE scr

\* fetchInsightsAISummary rejected: the inner catch block
OnSummaryRejected(scr, load) ==
    IF StillActive(load)
    THEN Finally([scr EXCEPT !.summaryText = buildInsightsFallbackSummary(load.data)], load)
    ELSE Finally(scr, load)

\* where a call ends: at the end of its try statement, or at one of the
\* early returns taken once the focus is lost
Returned(load) == IF StillActive(load) THEN "done" ELSE "discarded"

NewLoad ==
    [active |-> TRUE, at |-> "fetch", fetched |-> "pending", data |-> NULL,
     ai |-> "none", aiIssued |-> 0]

InitScreen ==
    /\ days = {}
    /\ dateKeys = {}
    /\ habitOut = NoHabit
    /\ now = NewDate(YearStart, 0)
    /\ userId = "u1"
    /\ groups = <<>>
    /\ finishedBooks = <<>>
    /\ records = <<>>
    /\ groupSentences = <<>>
    /\ insights = NULL
    /\ pc = "idle"
    /\ build = "idle"
    /\ req = <<>>
    /\ issued = <<>>
    /\ bookMapValues = <<>>
    /\ screen = InitialScreen
    /\ focused = FALSE
    /\ loads = <<>>
    /\ LateIdle

nonScreenVars ==
    <<habitVars, now, dataVars, insights, fetchVars, bookMapValues, lateVars>>

\* the screen gains the focus: the effect makes a fresh isActive and calls
\* loadInsights, which runs up to `await fetchInsights()`
Focus ==
    /\ ~focused
    /\ Len(loads) < MaxLoads
    /\ focused' = TRUE
    /\ loads' = Append(loads, NewLoad)
    /\ screen' = OnLoadStart(screen)
    /\ UNCHANGED nonScreenVars

\* the screen loses the focus: the cleanup of the effect clears its isActive
Blur ==
    /\ focused
    /\ focused' = FALSE
    /\ loads' = [loads EXCEPT ![Len(loads)].active = FALSE]
    /\ UNCHANGED <<screen, nonScreenVars>>

\* fetchInsights of load i resolves, with the local or the remote result
FetchResolves(i, kind) ==
    /\ i \in DOMAIN loads
    /\ loads[i].at = "fetch"
    /\ screen' = OnFetchResolved(screen, loads[i], FetchedData(kind))
    /\ loads' = [loads EXCEPT ![i] =
                    IF StillActive(loads[i])
                    THEN [@ EXCEPT !.at = "summary", !.fetched = kind,
                                   !.data = FetchedData(kind), !.aiIssued = @ + 1]
                    ELSE [@ EXCEPT !.at = "discarded", !.fetched = kind]]
    /\ UNCHANGED <<focused, nonScreenVars>>

\* fetchInsights of load i rejects: the local aggregation and the remote
\* endpoint both failed
FetchRejects(i, error) ==
    /\ i \in DOMAIN loads
    /\ loads[i].at = "fetch"
    /\ screen' = OnFetchRejected(screen, loads[i], error)
    /\ loads' = [loads EXCEPT ![i] = [@ EXCEPT !.at = Returned(loads[i]), !.fetched = "rejected"]]
    /\ UNCHANGED <<focused, nonScreenVars>>

\* fetchInsightsAISummary of load i resolves
SummaryResolves(i, payload) ==
    /\ i \in DOMAIN loads
    /\ loads[i].at = "summary"
    /\ screen' = OnSummaryResolved(screen, loads[i], payload)
    /\ loads' = [loads EXCEPT ![i] =
                    [@ EXCEPT !.at = Returned(loads[i]),
                              !.ai = IF Trim(normalizeInsightsSummary(payload)) # ""
                                     THEN "text" ELSE "blank"]]
    /\ UNCHANGED <<focused, nonScreenVars>>

\* fetchInsightsAISummary of load i rejects
SummaryRejects(i) ==
    /\ i \in DOMAIN loads
    /\ loads[i].at = "summary"
    /\ screen' = OnSummaryRejected(screen, loads[i])
    /\ loads' = [loads EXCEPT ![i] = [@ EXCEPT !.at = Returned(loads[i]), !.ai = "failed"]]
    /\ UNCHANGED <<focused, nonScreenVars>>

NextScreen ==
    \/ Focus
    \/ Blur
    \/ \E i \in 1..MaxLoads, kind \in {"local", "remote"} : FetchResolves(i, kind)
    \/ \E i \in 1..MaxLoads, error \in FetchErrors : FetchRejects(i, error)
    \/ \E i \in 1..MaxLoads, payload \in SummaryPayloads : SummaryResolves(i, payload)
    \/ \E i \in 1..MaxLoads : SummaryRejects(i)

SpecScreen == InitScreen /\ [][NextScreen]_vars

\* a load that has run to its end with the screen still focused
Completed(i) == loads[i].active /\ loads[i].at = "done"

\* C18: a load whose focus is lost writes nothing more to insights,
\* summaryText, insightsError or isLoading, whatever its fetches settle
\* with; every write made when a fetch settles is made by the load of the
\* latest focus, while that focus lasts.
C18_StaleLoadWritesNothing ==
    [][/\ \A i \in DOMAIN loads :
            (~loads[i].active /\ loads'[i] # loads[i]) => screen' = screen
       /\ \A i \in DOMAIN loads :
            (loads'[i].at # loads[i].at /\ screen' # screen)
                => (i = Len(loads) /\ loads[i].active /\ focused)]_vars

\* two loads overlap: the first lost its focus while its summary was
\* outstanding, the summary then arrived and was dropped, and the screen
\* shows the data of the second load, still loading
C18_Witness ==
    /\ Len(loads) = 2
    /\ loads[1].at = "discarded"
    /\ loads[1].ai = "text"
    /\ loads[2].at = "summary"
    /\ loads[1].data # loads[2].data
    /\ screen.insights = loads[2].data
    /\ screen.isLoading
    /\ screen.summaryText = EmptyText

\* C19: once a load whose fetchInsights succeeded has ended on a focused
\* screen, summaryText is not empty; if the summary call failed or gave a
\* blank summary, insights is the fetched data, insightsError is null and
\* summaryText is buildInsightsFallbackSummary of that data.
C19_SummaryFailureFallsBack ==
    \A i \in DOMAIN loads :
        (Completed(i) /\ loads[i].fetched \in {"local", "remote"})
            => /\ screen.summaryText # EmptyText
               /\ loads[i].ai \in {"failed", "blank"}
                    => /\ screen.insights = loads[i].data
                       /\ screen.insightsError = NULL
                       /\ screen.summaryText = buildInsightsFallbackSummary(loads[i].data)
                       /\ ~screen.isLoading

\* the summary endpoint answered the local result with a blank summary
C19_Witness ==
    \E i \in DOMAIN loads :
        /\ Completed(i)
        /\ loads[i].fetched = "local"
        /\ loads[i].ai = "blank"
        /\ screen.summaryText = buildInsightsFallbackSummary(LocalSample)

\* C20: a load whose fetchInsights rejected on a focused screen ends with
\* insights null, insightsError set to a non-empty message, an empty
\* summaryText and isLoading false, and no summary request was issued for
\* it; insightsError is never non-null while insights is non-null.
C20_InsightsUnavailable ==
    /\ \A i \in DOMAIN loads :
            (Completed(i) /\ loads[i].fetched = "rejected")
                => /\ screen.insights = NULL
                   /\ screen.insightsError # NULL
                   /\ screen.insightsError.message # ""
                   /\ screen.summaryText = EmptyText
                   /\ ~screen.isLoading
    /\ \A i \in DOMAIN loads :
            loads[i].fetched = "rejected" => loads[i].aiIssued = 0
    /\ screen.insightsError # NULL => screen.insights = NULL

-----------------------------------------------------------------------------
(* The aggregator called again over unchanged upstream data                *)

\* number of calls of the aggregator
Repeats == 2

\* records on the clock's day, the day after, and around the start of the
\* trailing window
RepeatRecords ==
    {Record(rd, "2024-01-02T09:00:00.000Z", isbn, "T") :
        rd \in {"2024-01-01", "2023-12-05", "2023-12-04", "2024-01-02T09:00:00.000Z"},
        isbn \in {"A", "B"}}

InitRepeat ==
    /\ days = {}
    /\ dateKeys = {}
    /\ habitOut = NoHabit
    /\ now = NewDate(YearStart, 0)
    /\ userId = "u1"
    /\ records \in SeqsUpTo(RepeatRecords, MaxRepeatRecords)
    /\ groups = <<Group("g1"), Group("g2")>>
    /\ finishedBooks = <<FinishedGroup("g1")>>
    /\ groupSentences = [g \in {"g1", "g2"} |-> <<Sentence("u1")>>]
    /\ insights = NULL
    /\ pc = "idle"
    /\ build = "idle"
    /\ req = <<>>
    /\ issued = <<>>
    /\ bookMapValues = <<>>
    /\ screen = InitialScreen
    /\ focused = FALSE
    /\ loads = <<>>
    /\ LateIdle

\* buildInsightsFromUserData, every query answered with the same data as
\* before; the clock it read is kept with its result
CallAggregator ==
    /\ Len(results) < Repeats
    /\ results' = Append(results,
                    [clock |-> now,
                     value |-> BuildInsights(groups, finishedBooks, records,
                                  UserSentences(userId, SentenceResponses(groups, groupSentences)),
                                  now)])
    /\ UNCHANGED <<habitVars, now, dataVars, insights, fetchVars, bookMapValues,
                   screenVars, tz, textExample, sessionVars>>

\* time passes: to the last millisecond of the day, or to the next midnight
ClockAdvances ==
    /\ now.day <= YearStart
    /\ now' = IF now.ms = 0 THEN NewDate(now.day, 86399999) ELSE NewDate(now.day + 1, 0)
    /\ UNCHANGED <<habitVars, dataVars, insights, fetchVars, bookMapValues,
                   screenVars, lateVars>>

NextRepeat == CallAggregator \/ ClockAdvances

SpecRepeat == InitRepeat /\ [][NextRepeat]_vars

\* C21 as stated: any two calls of the aggregator over the same upstream
\* data return the same InsightsResult.
C21_RepeatedCallsAgree ==
    \A i, j \in DOMAIN results : results[i].value = results[j].value

\* C21 amended: two calls of the aggregator over the same upstream data
\* that read the clock on the same UTC day return the same InsightsResult,
\* in every field and in the order of topBooks.
C21_SameDayCallsAgree ==
    \A i, j \in DOMAIN results :
        results[i].clock.day = results[j].clock.day => results[i].value = results[j].value

\* two calls at the two ends of one UTC day, over a record of that day and
\* one of the first day of the window, of two books
C21_Witness ==
    /\ Len(results) = 2
    /\ results[1].clock.day = results[2].clock.day
    /\ results[1].clock # results[2].clock
    /\ results[2].value.habit.currentStreak = 1
    /\ results[2].value.habit.weeklyFrequency = Quot(2, 4)
    /\ Len(results[2].value.activity.topBooks) = 2

-----------------------------------------------------------------------------
(* DayKey normalisation of timestamps, on clients in several timezones     *)

\* offsets of local time from UTC, in minutes: UTC, Seoul, New York
Zones == {0, 540, -300}

\* timestamps that name their zone or are date-only, and so denote an instant
InstantStrings ==
    {"2024-01-01",
     "2024-01-01T23:59:59.999Z", "2024-01-01T23:59:59Z",
     "2024-01-01T00:00:00Z", "2024-01-01T00:00:00.000Z",
     "2023-12-31T12:00:00Z", "2024-01-02T09:00:00.000Z",
     "2024-01-02T08:30:00+09:00", "2024-01-02T08:30:00.500+09:00",
     "2023-12-31T20:00:00-05:00"}

\* also a date-time without a zone, and a string that is no date
StampStrings == InstantStrings \cup {"2024-01-01T23:30:00", "not-a-date"}

StampRecords == {Record(rd, "", "A", "T") : rd \in StampStrings}

InitDayKey ==
    /\ days = {}
    /\ dateKeys = {}
    /\ habitOut = NoHabit
    /\ now = NewDate(YearStart, 0)
    /\ userId = "u1"
    /\ records \in SeqsUpTo(StampRecords, MaxStampRecords)
    /\ groups = <<>>
    /\ finishedBooks = <<>>
    /\ groupSentences = <<>>
    /\ insights = NULL
    /\ pc = "normalize"
    /\ build = "idle"
    /\ req = <<>>
    /\ issued = <<>>
    /\ bookMapValues = <<>>
    /\ screen = InitialScreen
    /\ focused = FALSE
    /\ loads = <<>>
    /\ results = <<>>
    /\ tz \in Zones
    /\ textExample = <<>>
    /\ SessionIdle

\* the record loop of buildInsightsFromUserData: parseRecordDate and
\* dateToKey of every record, collected in uniqueDateKeys
Normalize ==
    /\ pc = "normalize"
    /\ dateKeys' = UniqueDateKeys(records)
    /\ pc' = "resolved"
    /\ UNCHANGED <<days, habitOut, now, dataVars, insights, build, req, issued,
                   bookMapValues, screenVars, lateVars>>

NextDayKey == Normalize

SpecDayKey == InitDayKey /\ [][NextDayKey]_vars

\* what the calendar says: the UTC day of the instant a timestamp denotes
UtcDay(value) ==
    CASE value = "2023-12-31T12:00:00Z"     -> YearStart - 1
      [] value = "2024-01-02T09:00:00.000Z" -> YearStart + 1
      [] OTHER                              -> YearStart

\* the DayKey of that day
KeyOfDay(day) ==
    CASE day = YearStart - 1 -> Key_2023_12_31
      [] day = YearStart     -> Key_2024_01_01
      [] day = YearStart + 1 -> Key_2024_01_02

\* the records whose timestamp denotes an instant
Instants == {i \in DOMAIN records : records[i].readDate \in InstantStrings}

C23_AvgFinishDaysUnknown ==
    /\ pc = "resolved" => insights.completion.avgFinishDays = NULL
    /\ textExample # <<>> =>
          /\ textExample[8] = Text("average days to finish: no record", <<>>)
          /\ textExample[8] # Text("average days to finish: {0} days", <<0>>)

\* the text of a result with a finished book and a reading day
C23_Witness ==
    /\ textExample # <<>>
    /\ insights.completion.finishedBooks = 1
    /\ insights.habit.totalReadingDays = 1
    /\ textExample[5] = Text("finished books: {0}", <<1>>)
    /\ textExample[8] = Text("average days to finish: no record", <<>>)

\* C24: when no record has a parseable date (there may be no record at
\* all), currentStreak, bestStreak, weeklyFrequency and totalReadingDays are
\* 0, whatever the clock reads.
C24_EmptyDayKeySet ==
    (pc = "resolved" /\ DatedRecords = <<>>) =>
        /\ insights.habit.currentStreak = 0
        /\ insights.habit.bestStreak = 0
        /\ insights.habit.weeklyFrequency = Quot(0, 1)
        /\ insights.habit.totalReadingDays = 0

\* two records, neither with a date that parses
C24_Witness ==
    /\ pc = "resolved"
    /\ Len(records) = 2
    /\ records[1].readDate = "not-a-date"
    /\ records[2].readDate = ""
    /\ insights.activity.totalRecords = 2
    /\ insights.habit.totalReadingDays = 0
    /\ insights.habit.bestStreak = 0

-----------------------------------------------------------------------------
(* The session module and the auth service                                 *)

\* the ids the server may return for a login or a signup
UserIds == {"u1", "u2"}

\* callers of hydrate(): bootstrapSession, getUserId, and request(), which
\* awaits getUserId() for its x-user-id header
HydratingOps == {"bootstrapSession", "getUserId", "request"}

AuthOps == {"login", "signup", "logout"}

\* an asynchronous call: where it stands, what its storage read returned,
\* what it returned (the header value for a request), and whether and with
\* what id setUserId had last been called when it was made
Call(op, arg, at, read, ret) ==
    [op |-> op, arg |-> arg, at |-> at, read |-> read, ret |-> ret,
     known |-> lastSet.called, expect |-> lastSet.userId]

\* what the caller of hydrate() gets back: getUserId returns cachedUserId,
\* request sets the header from it if it is truthy, bootstrapSession nothing
Returns(op, cached) == IF op = "bootstrapSession" THEN "" ELSE cached

InitSession ==
    /\ days = {}
    /\ dateKeys = {}
    /\ habitOut = NoHabit
    /\ now = NewDate(YearStart, 0)
    /\ userId = NoUserId
    /\ groups = <<>>
    /\ finishedBooks = <<>>
    /\ records = <<>>
    /\ groupSentences = <<>>
    /\ insights = NULL
    /\ pc = "idle"
    /\ build = "idle"
    /\ req = <<>>
    /\ issued = <<>>
    /\ bookMapValues = <<>>
    /\ screen = InitialScreen
    /\ focused = FALSE
    /\ loads = <<>>
    /\ results = <<>>
    /\ tz = 0
    /\ textExample = <<>>
    /\ cachedUserId = ""
    /\ hydrated = FALSE
    /\ storage \in {"", "u0"}
    /\ calls = <<>>
    /\ lastSet = [called |-> FALSE, userId |-> ""]

nonSessionVars ==
    <<habitVars, now, dataVars, insights, fetchVars, bookMapValues, screenVars,
      results, tz, textExample>>

\* setUserId(userId): the cache is written before the storage is awaited;
\* AsyncStorage applies setItem / removeItem in the order of the calls
setUserId(u) ==
    /\ cachedUserId' = u
    /\ hydrated' = TRUE
    /\ storage' = u
    /\ lastSet' = [called |-> TRUE, userId |-> u]

\* clearUserId(): setUserId(null)
clearUserId == setUserId("")

\* bootstrapSession(), getUserId() or request() is called: hydrate()
\* returns at once if hydrated, and else suspends on AsyncStorage.getItem
CallHydrate(op) ==
    /\ op \in HydratingOps
    /\ Len(calls) < MaxSessionCalls
    /\ calls' = Append(calls,
                    IF hydrated
                    THEN Call(op, "", "done", "", Returns(op, cachedUserId))
                    ELSE Call(op, "", "getItem", storage, ""))
    /\ UNCHANGED <<cachedUserId, hydrated, storage, lastSet, nonSessionVars>>

\* the storage read of a suspended hydrate() resolves: the value read is
\* assigned to cachedUserId, hydrated is set, and the caller goes on
HydrateResumes(i) ==
    /\ i \in DOMAIN calls
    /\ calls[i].at = "getItem"
    /\ cachedUserId' = calls[i].read
    /\ hydrated' = TRUE
    /\ calls' = [calls EXCEPT ![i].at = "done", ![i].ret = Returns(calls[i].op, calls[i].read)]
    /\ UNCHANGED <<storage, lastSet, nonSessionVars>>

\* login(payload), signup(payload) or logout() is called: the request is
\* sent with auth: false, so without a session lookup
CallAuth(op, u) ==
    /\ op \in AuthOps
    /\ Len(calls) < MaxSessionCalls
    /\ calls' = Append(calls, Call(op, IF op = "logout" THEN "" ELSE u, "remote", "", ""))
    /\ UNCHANGED <<cachedUserId, hydrated, storage, lastSet, nonSessionVars>>

\* the auth request succeeds: login and signup store user.id, logout clears
AuthSucceeds(i) ==
    /\ i \in DOMAIN calls
    /\ calls[i].at = "remote"
    /\ IF calls[i].op = "logout" THEN clearUserId ELSE setUserId(calls[i].arg)
    /\ calls' = [calls EXCEPT ![i].at = "done"]
    /\ UNCHANGED nonSessionVars

\* the auth request fails: request() throws and the session is not reached
AuthFails(i) ==
    /\ i \in DOMAIN calls
    /\ calls[i].at = "remote"
    /\ calls' = [calls EXCEPT ![i].at = "failed"]
    /\ UNCHANGED <<cachedUserId, hydrated, storage, lastSet, nonSessionVars>>

NextSession ==
    \/ \E op \in HydratingOps : CallHydrate(op)
    \/ \E i \in 1..MaxSessionCalls : HydrateResumes(i)
    \/ \E op \in AuthOps, u \in UserIds : CallAuth(op, u)
    \/ \E i \in 1..MaxSessionCalls : AuthSucceeds(i)
    \/ \E i \in 1..MaxSessionCalls : AuthFails(i)

SpecSession == InitSession /\ [][NextSession]_vars

\* C25: once setUserId(u) or clearUserId() has been called, cachedUserId is
\* its argument until the next such call, whatever hydrate() resumes in
\* between, and every getUserId() called after it returns that argument.
C25_SetUserIdOutlivesHydrate ==
    /\ lastSet.called => (hydrated /\ cachedUserId = lastSet.userId)
    /\ \A i \in DOMAIN calls :
            (calls[i].op = "getUserId" /\ calls[i].known) => calls[i].ret = calls[i].expect

\* what one step of an auth call does to the session: nothing when the
\* call is made or its request fails, setUserId(user.id) when a login or a
\* signup succeeds, clearUserId() when a logout succeeds
AuthStepFollowsOutcome ==
    /\ (Len(calls') > Len(calls) /\ calls'[Len(calls')].op \in AuthOps)
            => UNCHANGED <<cachedUserId, hydrated, storage>>
    /\ \A i \in DOMAIN calls :
            calls[i].at = "remote" =>
                /\ calls'[i].at = "failed" => UNCHANGED <<cachedUserId, hydrated, storage>>
                /\ (calls'[i].at = "done" /\ calls[i].op \in {"login", "signup"})
                        => (cachedUserId' = calls[i].arg /\ storage' = calls[i].arg)
                /\ (calls'[i].at = "done" /\ calls[i].op = "logout")
                        => (cachedUserId' = "" /\ storage' = "")

\* the request() calls made after some login, signup or logout succeeded
\* carry the id that the latest of them left in the session
LaterRequestsCarryId ==
    \A i \in DOMAIN calls :
        (calls[i].op = "request" /\ calls[i].known /\ calls[i].at = "done")
            => calls[i].ret = calls[i].expect

\* C30: login and signup store the user id when, and only when, their
\* remote request succeeded; logout clears it when, and only when, its
\* remote request succeeded; a failed request leaves the session as it
\* was, and the requests made afterwards carry the id the latest successful
\* login, signup or logout left there.
C30_SessionFollowsAuthOutcome ==
    [][AuthStepFollowsOutcome]_vars /\ []LaterRequestsCarryId

-----------------------------------------------------------------------------
(* The screen with every outstanding request settling in the end           *)

\* fetch() settles every request: the one a load waits for resolves or
\* rejects at some time
RequestsSettle ==
    \A i \in 1..MaxLoads :
        /\ WF_vars(\/ \E kind \in {"local", "remote"} : FetchResolves(i, kind)
                   \/ \E error \in FetchErrors : FetchRejects(i, error))
        /\ WF_vars(\/ \E payload \in SummaryPayloads : SummaryResolves(i, payload)
                   \/ SummaryRejects(i))

SpecScreenFair == SpecScreen /\ RequestsSettle

\* C26: while the screen is focused and loading, the loading indicator goes
\* off or the screen loses the focus; once off it comes on only by a focus;
\* it goes off only when the load of the latest focus ends on a focused
\* screen, so a load abandoned by a blur leaves it on until then.
C26_LoadingIndicatorSettles ==
    /\ (focused /\ screen.isLoading) ~> (~screen.isLoading \/ ~focused)
    /\ [][/\ (~screen.isLoading /\ screen'.isLoading) => (~focused /\ focused')
          /\ (screen.isLoading /\ ~screen'.isLoading)
                => /\ focused
                   /\ loads[Len(loads)].active
                   /\ loads[Len(loads)].at # "done"
                   /\ loads'[Len(loads)].at = "done"]_vars

\* the load of the first focus was abandoned and is still outstanding; the
\* load of the second focus has ended and the indicator is off
C26_Witness ==
    /\ Len(loads) = 2
    /\ ~loads[1].active
    /\ loads[1].at = "summary"
    /\ focused
    /\ Completed(2)
    /\ ~screen.isLoading

\* C27: no data query is started before the session lookup has completed;
\* the groups, finished-groups and records queries are started together;
\* a sentence query is started only once all three have succeeded, one for
\* each id of the fetched group list, finished groups included; if one of
\* the three fails no sentence query is started.
C27_FetchOrdering ==
    /\ build \in {"idle", "session"} => \A k \in UpstreamKeys : issued[k] = 0
    /\ \A k \in UpstreamKeys : issued[k] > 0 => issued["session"] = 1
    /\ \A k, l \in DataKeys : issued[k] = issued[l]
    /\ (\E g \in SentenceKeys : issued[g] > 0) => \A k \in DataKeys : req[k] = "ok"
    /\ (\A k \in DataKeys : req[k] = "ok")
            => \A g \in SentenceKeys :
                    issued[g] = Cardinality({i \in DOMAIN groups : groups[i].id = g})
    /\ (\E k \in DataKeys : req[k] = "fail") => \A g \in SentenceKeys : issued[g] = 0

\* the sentences of both groups are being fetched, those of the finished
\* group g1 too
C27_Witness ==
    /\ build = "sentences"
    /\ Len(groups) = 2
    /\ finishedBooks = <<FinishedGroup("g1")>>
    /\ \A k \in DataKeys : req[k] = "ok" /\ issued[k] = 1
    /\ issued["g1"] = 1
    /\ issued["g2"] = 1
    /\ req["g1"] = "pending"

\* the number of records whose readDate is a date
WithDate == Cardinality({i \in DOMAIN records : records[i].readDate \notin {"not-a-date", ""}})

\* C28: in a local result totalReadingDays is the number of distinct
\* DayKeys, currentStreak <= bestStreak <= totalReadingDays <= the number
\* of records with a parseable date <= totalRecords, and
\* 4 * weeklyFrequency <= min(28, totalReadingDays).
C28_HabitBounds ==
    pc = "resolved" =>
        LET habit == insights.habit
        IN  /\ habit.totalReadingDays = Cardinality(UniqueDateKeys(records))
            /\ habit.currentStreak <= habit.bestStreak
            /\ habit.bestStreak <= habit.totalReadingDays
            /\ habit.totalReadingDays <= WithDate
            /\ WithDate <= insights.activity.totalRecords
            /\ 4 * habit.weeklyFrequency.num <= 28 * habit.weeklyFrequency.den
            /\ 4 * habit.weeklyFrequency.num <= habit.totalReadingDays * habit.weeklyFrequency.den

\* C29: in every locally computed result topBooks has at most 3 entries, their
\* ISBNs are pairwise distinct and non-empty, every recordCount is at least 1,
\* the recordCounts do not increase along the list, their sum is at most
\* totalRecords, and no book left out of topBooks has a recordCount greater
\* than the last listed one.
C29_TopBooksShape ==
    pc = "resolved" =>
        LET tb     == insights.activity.topBooks
            listed == {tb[i].isbn : i \in DOMAIN tb}
        IN  /\ Len(tb) <= 3
            /\ \A i, j \in DOMAIN tb : tb[i].isbn = tb[j].isbn => i = j
            /\ \A i \in DOMAIN tb : tb[i].isbn # "" /\ tb[i].recordCount >= 1
            /\ \A i, j \in DOMAIN tb : i < j => tb[i].recordCount >= tb[j].recordCount
            /\ SumCounts(tb) <= insights.activity.totalRecords
            /\ \A k \in DOMAIN bookMapValues :
                   bookMapValues[k].isbn \notin listed =>
                       /\ tb # <<>>
                       /\ bookMapValues[k].recordCount <= tb[Len(tb)].recordCount

\* C29 witness: four books of which one has two records, so that one book with
\* a single record is left out of the three listed
C29_Witness ==
    /\ pc = "resolved"
    /\ Cardinality(Isbns) = 4
    /\ Len(insights.activity.topBooks) = 3
    /\ insights.activity.topBooks[1].recordCount = 2
    /\ insights.activity.topBooks[3].recordCount = 1
    /\ Len(bookMapValues) = 4

=============================================================================
